---- MODULE Spec2Model ----
(***************************************************************************)
(* A model of SimpleKFrameClient (src/woa/client.py): the State Store maps *)
(* and their family handlers, the display combiner, the heartbeat          *)
(* supervisor, the message framer and the State Store lock, together with  *)
(* the snapshot reader of src/woa/gui.py.                                  *)
(*                                                                         *)
(* Text is modelled structurally.  A Python str that the code only stores, *)
(* compares or looks up is a TLA+ string; a str the code builds with an    *)
(* f-string is the tuple of its pieces; a multi-line display text is the   *)
(* sequence of its lines (the code joins them with "\n").  Conversions     *)
(* (int(), strip(), lower(), 'aux' in ..., bytes.decode) are tables over   *)
(* the finite universes the model draws its documents from.                *)
(***************************************************************************)
EXTENDS Integers, Sequences, FiniteSets, TLC

\* ----------------------------------------------------------------- bounds
\* Documents one behaviour dispatches (the handlers themselves are unbounded).
MaxDocs == 3

\* Longest ActiveLayerSet the display combiner is applied to.
MaxLayers == 3

\* Seconds of wall-clock time a behaviour covers.
MaxTime == 5

\* The most calls of stop() in a behaviour.
MaxStops == 2

\* Envelopes in a received byte stream.
MaxEnvelopes == 2

\* Characters the receive buffer may hold without a closing tag before it is
\* dropped: the 1000000 of client.py 557, scaled to the streams of the model.
MaxBuffer == 7

\* A missing attribute, element or dict entry (Python None).
Absent == "<absent>"

\* ------------------------------------------------------------ conversions
\* int(s) on the attribute texts of the model; a text outside the table
\* raises ValueError in the code.
IntTable ==
    ("0" :> 0) @@ ("1" :> 1) @@ ("2" :> 2) @@ ("3" :> 3) @@ ("4" :> 4) @@
    ("5" :> 5) @@ ("6" :> 6) @@ ("7" :> 7)

IsInt(s) == s \in DOMAIN IntTable

ParseInt(s) == IntTable[s]

\* s.strip() on the texts of the model.
Strip(s) ==
    CASE s = " "      -> ""
      [] s = " Full " -> "Full"
      [] s = " 5 "    -> "5"
      [] OTHER        -> s

\* s.lower() on the texts of the model.
Lower(s) ==
    CASE s = "Full"     -> "full"
      [] s = "FULL"     -> "full"
      [] s = "Complete" -> "complete"
      [] s = "Update"   -> "update"
      [] s = "Aux 1"    -> "aux 1"
      [] s = "AUX 2"    -> "aux 2"
      [] s = "PGM"      -> "pgm"
      [] OTHER          -> s

\* 'aux' in s, for a lower-cased output name of the model.
ContainsAux(s) == s \in {"aux 1", "aux 2"}

\* (attr or default): Python's `or` takes the default for None and for ''.
OrElse(v, default) == IF v = Absent \/ v = "" THEN default ELSE v

\* ------------------------------------------------------------------ dicts
\* A plain dict is a function whose domain is the set of keys present.
EmptyDict == [k \in {} |-> Absent]

DictGet(d, k, default) == IF k \in DOMAIN d THEN d[k] ELSE default

DictPut(d, k, v) == [x \in (DOMAIN d) \cup {k} |-> IF x = k THEN v ELSE d[x]]

DictPop(d, k) == [x \in (DOMAIN d) \ {k} |-> d[x]]

\* An OrderedDict is the sequence of its <<key, value>> items in insertion
\* order, keys unique.
OdKeys(od) == {od[i][1] : i \in DOMAIN od}

OdHas(od, k) == k \in OdKeys(od)

OdGet(od, k) == od[CHOOSE i \in DOMAIN od : od[i][1] = k][2]

\* od[k] = v: an existing key keeps its position, a new key is appended.
OdPut(od, k, v) ==
    IF OdHas(od, k)
    THEN [i \in DOMAIN od |-> IF od[i][1] = k THEN <<k, v>> ELSE od[i]]
    ELSE Append(od, <<k, v>>)

\* for k, v in items: od[k] = v
RECURSIVE OdPutAll(_, _)
OdPutAll(od, items) ==
    IF items = <<>> THEN od
    ELSE OdPutAll(OdPut(od, items[1][1], items[1][2]), Tail(items))

\* The sequence s without its i-th element.
RemoveAt(s, i) == [j \in 1..(Len(s) - 1) |-> IF j < i THEN s[j] ELSE s[j + 1]]

\* sorted(od.items()) for integer keys: ascending by key.
RECURSIVE SortedItems(_)
SortedItems(od) ==
    IF od = <<>> THEN <<>>
    ELSE LET i == CHOOSE i \in DOMAIN od : \A j \in DOMAIN od : od[i][1] <= od[j][1]
         IN  <<od[i]>> \o SortedItems(RemoveAt(od, i))

\* --------------------------------------------------------------- constants
HEARTBEAT_INTERVAL == 1

HEARTBEAT_INTERVAL_LONG == 5

RESPONSE_TIMEOUT == 4

\* range(4): the suites whose displays the handlers refresh.
NumSuites == 4

\* Suite keys the documents of the model can produce (suite number - 1 for
\* the suite numbers 0..5); the per-suite maps are defaultdicts, so a key
\* that was never written reads as an empty map.
SuiteKeys == -1..4

\* ------------------------------------------------------------------ state
VARIABLES
    \* SimpleKFrameClient fields (client.py 17-44)
    connected, running, sock,
    current_on_air, source_names, on_air_layers, layer_sources,
    aux_assignments, all_outputs, engineering_sources, logical_sources,
    engineering_sources_ready, logical_suites_ready,
    initial_requests_sent, data_complete, last_heartbeat_response,
    heartbeat_interval, response_timer, response_timer_start,
    \* environment: wall clock (seconds), next wake-up of the heartbeat worker
    now, hb_wake,
    \* history: last document dispatched, whether the one before it was a full
    \* snapshot, documents dispatched, session-complete markers processed,
    \* protocol timeouts reported
    last_doc, prev_full, ndocs, markers_done, timeouts,
    \* history of the session: the write attempts of the latest operation that
    \* writes to the socket (start, a dispatch, a wake-up), the calls of
    \* request_data so far, whether an authentication response was processed,
    \* what start() returned, the calls of stop(), whether the source-name
    \* index ever held an entry, the time the oldest heartbeat request still
    \* without a response was sent, and the wake-ups in a row that found it
    \* 4 s old or older and reported nothing
    writes, bursts, auth_seen, start_ok, stops, names_seen,
    unanswered_since, silent_wakes,
    \* the calls of trigger_gui_update the latest dispatch made, and the two
    \* worker threads of start() (client.py 587-588): not started, alive or
    \* returned, and where the caller of start() and the receive worker are
    \* in _send_initial_requests (client.py 58-66)
    updates, threads, reg_pc,
    \* _update_callbacks (client.py 36), and the notification in progress or
    \* last made by _notify_update_callbacks (client.py 527-534): the number
    \* of the document it belongs to, the list it copied, and the callbacks
    \* it has invoked so far, in order
    update_callbacks, notify,
    \* receive_worker (client.py 541-563): bytes the peer sent, bytes read so
    \* far, the text buffer, the chunks handed to process_xml_chunk in order,
    \* whether the overflow guard has fired, and the complete documents the
    \* worker has still to cut from its buffer, in stream order
    stream, rd_pos, buffer, dispatched, overflowed, inbox,
    \* the State Store lock and the threads around it: who holds the lock, where
    \* the receive worker is in its handler, the document it handles, the
    \* sections and refresh targets it still has to do, the store as the
    \* document found it, where the snapshot reader is, and its snapshot
    lock, recv_pc, recv_doc, recv_sections, recv_targets, doc_pre, reader_pc, snapshot

clientVars ==
    <<connected, running, sock, current_on_air, source_names, on_air_layers,
      layer_sources, aux_assignments, all_outputs, engineering_sources,
      logical_sources, engineering_sources_ready, logical_suites_ready,
      initial_requests_sent, data_complete, last_heartbeat_response,
      heartbeat_interval, response_timer, response_timer_start>>

envVars == <<now, hb_wake>>

docHist == <<last_doc, prev_full, ndocs, markers_done>>

wireHist == <<writes, bursts, auth_seen, start_ok>>

beatHist == <<timeouts, unanswered_since, silent_wakes>>

cbVars == <<update_callbacks, notify>>

noteVars == <<updates, threads, reg_pc, cbVars>>

histVars == <<docHist, wireHist, beatHist, stops, names_seen, noteVars>>

framerVars == <<stream, rd_pos, buffer, dispatched, overflowed, inbox>>

lockVars ==
    <<lock, recv_pc, recv_doc, recv_sections, recv_targets, doc_pre, reader_pc, snapshot>>

vars == <<clientVars, envVars, histVars, framerVars, lockVars>>

\* The client object as one value, for the handlers, which are functions
\* from client state to client state.
Client ==
    [connected |-> connected, running |-> running, sock |-> sock,
     current_on_air |-> current_on_air, source_names |-> source_names,
     on_air_layers |-> on_air_layers, layer_sources |-> layer_sources,
     aux_assignments |-> aux_assignments, all_outputs |-> all_outputs,
     engineering_sources |-> engineering_sources,
     logical_sources |-> logical_sources,
     engineering_sources_ready |-> engineering_sources_ready,
     logical_suites_ready |-> logical_suites_ready,
     initial_requests_sent |-> initial_requests_sent,
     data_complete |-> data_complete,
     last_heartbeat_response |-> last_heartbeat_response,
     heartbeat_interval |-> heartbeat_interval,
     response_timer |-> response_timer,
     response_timer_start |-> response_timer_start]

SetClient(c) ==
    /\ connected' = c.connected
    /\ running' = c.running
    /\ sock' = c.sock
    /\ current_on_air' = c.current_on_air
    /\ source_names' = c.source_names
    /\ on_air_layers' = c.on_air_layers
    /\ layer_sources' = c.layer_sources
    /\ aux_assignments' = c.aux_assignments
    /\ all_outputs' = c.all_outputs
    /\ engineering_sources' = c.engineering_sources
    /\ logical_sources' = c.logical_sources
    /\ engineering_sources_ready' = c.engineering_sources_ready
    /\ logical_suites_ready' = c.logical_suites_ready
    /\ initial_requests_sent' = c.initial_requests_sent
    /\ data_complete' = c.data_complete
    /\ last_heartbeat_response' = c.last_heartbeat_response
    /\ heartbeat_interval' = c.heartbeat_interval
    /\ response_timer' = c.response_timer
    /\ response_timer_start' = c.response_timer_start

\* The State Store maps of a client value (what a snapshot can be compared on).
StoreOf(c) ==
    [current_on_air |-> c.current_on_air, source_names |-> c.source_names,
     on_air_layers |-> c.on_air_layers, layer_sources |-> c.layer_sources,
     aux_assignments |-> c.aux_assignments, all_outputs |-> c.all_outputs,
     engineering_sources |-> c.engineering_sources,
     logical_sources |-> c.logical_sources,
     engineering_sources_ready |-> c.engineering_sources_ready,
     logical_suites_ready |-> c.logical_suites_ready]

NoDoc == [markers |-> {}]

NoPre == [connected |-> FALSE]

NoSnapshot == [taken |-> FALSE]

\* __init__: every map empty, fast heartbeat interval, no deadline armed.
InitClient ==
    /\ connected = FALSE
    /\ running = FALSE
    /\ sock = "none"
    /\ current_on_air = [s \in SuiteKeys |-> EmptyDict]
    /\ source_names = EmptyDict
    /\ on_air_layers = [s \in SuiteKeys |-> EmptyDict]
    /\ layer_sources = [s \in SuiteKeys |-> EmptyDict]
    /\ aux_assignments = [s \in SuiteKeys |-> <<>>]
    /\ all_outputs = [s \in SuiteKeys |-> <<>>]
    /\ engineering_sources = <<>>
    /\ logical_sources = [s \in SuiteKeys |-> <<>>]
    /\ engineering_sources_ready = FALSE
    /\ logical_suites_ready = {}
    /\ initial_requests_sent = FALSE
    /\ data_complete = FALSE
    /\ last_heartbeat_response = 0
    /\ heartbeat_interval = HEARTBEAT_INTERVAL
    /\ response_timer = 0
    /\ response_timer_start = 0

InitEnv ==
    /\ now = 0
    /\ hb_wake = 0

\* No heartbeat request without a response: unanswered_since holds the time
\* the oldest such request was sent, or nothing.
Never == {}

\* No notification made yet.
NoNotification == [doc_no |-> 0, list |-> <<>>, called |-> <<>>]

\* A thread that is not in _send_initial_requests.
NotIn == [pc |-> "out", i |-> 0]

InitNotes ==
    /\ last_doc = NoDoc
    /\ prev_full = FALSE
    /\ ndocs = 0
    /\ markers_done = 0
    /\ timeouts = 0
    /\ writes = <<>>
    /\ bursts = 0
    /\ auth_seen = FALSE
    /\ start_ok = "none"
    /\ stops = 0
    /\ names_seen = (source_names # EmptyDict)
    /\ unanswered_since = Never
    /\ silent_wakes = 0
    /\ updates = 0
    /\ threads = [recv |-> "none", hb |-> "none"]
    /\ reg_pc = [caller |-> NotIn, worker |-> NotIn]
    /\ notify = NoNotification

\* No callback registered (client.py 36).
InitHist == InitNotes /\ update_callbacks = <<>>

\* Nothing received yet.
InitFramer ==
    /\ stream = <<>>
    /\ rd_pos = 0
    /\ buffer = <<>>
    /\ dispatched = <<>>
    /\ overflowed = FALSE
    /\ inbox = <<>>

\* The lock free, the receive worker between documents, no reader.
InitLock ==
    /\ lock = "free"
    /\ recv_pc = "idle"
    /\ recv_doc = NoDoc
    /\ recv_sections = <<>>
    /\ recv_targets = {}
    /\ doc_pre = NoPre
    /\ reader_pc = "idle"
    /\ snapshot = NoSnapshot

Init == InitClient /\ InitEnv /\ InitHist /\ InitFramer /\ InitLock

\* ---------------------------------------------------------- output tally
\* Output elements folded into outputs_by_suite / updates_by_suite
\* (client.py 259-284): acc is [all |-> suite -> OrderedDict, aux |-> same].
TallySuiteIndex(suite_attr) ==
    IF suite_attr = Absent \/ suite_attr = "" THEN 0
    ELSE IF IsInt(suite_attr) THEN ParseInt(suite_attr) - 1
    ELSE 0

\* out_num is None (client.py 268-274): no attribute, or one int() rejects.
TallyOutNumMissing(out_num_attr) ==
    out_num_attr = Absent \/ out_num_attr = "" \/ ~IsInt(out_num_attr)

TallyOutNum(out_num_attr) == ParseInt(out_num_attr)

IsAuxName(name) == name # "" /\ ContainsAux(Lower(name))

RECURSIVE TallyCollect(_, _)
TallyCollect(acc, outputs) ==
    IF outputs = <<>> THEN acc
    ELSE LET e == outputs[1]
             name == Strip(OrElse(e.Name, ""))
             suite_index == TallySuiteIndex(e.Suite)
             out_num == TallyOutNum(e.OutNum)
             data == [name |-> name, logsrc |-> Strip(OrElse(e.LogSrc, ""))]
             acc1 == [acc EXCEPT !.all[suite_index] = OdPut(@, out_num, data)]
             acc2 == IF IsAuxName(name)
                     THEN [acc1 EXCEPT !.aux[suite_index] = OdPut(@, out_num, data)]
                     ELSE acc1
         IN  IF TallyOutNumMissing(e.OutNum)
             THEN TallyCollect(acc, Tail(outputs))
             ELSE TallyCollect(acc2, Tail(outputs))

\* Mutant: every type other than "incremental" read as a full snapshot.
TallyIsFullUnlessIncremental(doc) ==
    Lower(Strip(OrElse(doc.type, ""))) # "incremental"

TallyIsFull(doc) == Lower(Strip(OrElse(doc.type, ""))) = "full"

\* The suites the second loop of process_output_tally visits (client.py 294).
TallyAuxSuites(updates_by_suite) == {s \in SuiteKeys : updates_by_suite[s] # <<>>}

\* process_output_tally (client.py 247-300).
process_output_tally(c, doc) ==
    IF ~doc.wellformed \/ ~doc.has_elem THEN c
    ELSE LET is_full == TallyIsFull(doc)
             empty == [s \in SuiteKeys |-> <<>>]
             got == TallyCollect([all |-> empty, aux |-> empty], doc.outputs)
             new_all ==
                 [s \in SuiteKeys |->
                     IF got.all[s] = <<>> THEN c.all_outputs[s]
                     ELSE OdPutAll(IF is_full THEN <<>> ELSE c.all_outputs[s],
                                   SortedItems(got.all[s]))]
             new_aux ==
                 [s \in SuiteKeys |->
                     IF s \notin TallyAuxSuites(got.aux) THEN c.aux_assignments[s]
                     ELSE OdPutAll(IF is_full THEN <<>> ELSE c.aux_assignments[s],
                                   SortedItems(got.aux[s]))]
         IN  [c EXCEPT !.all_outputs = new_all, !.aux_assignments = new_aux]

\* ------------------------------------------------- engineering source map
RECURSIVE EngEntries(_, _)
EngEntries(acc, srcs) ==
    IF srcs = <<>> THEN acc
    ELSE LET e == srcs[1]
             eng_id == Strip(OrElse(e.ID, ""))
             data == [id |-> eng_id, name |-> Strip(OrElse(e.Name, "")),
                      type |-> Strip(OrElse(e.Type, "")),
                      bnc |-> IF e.BNC = Absent THEN "" ELSE Strip(e.BNC)]
         IN  EngEntries(OdPut(acc, eng_id, data), Tail(srcs))

MapIsFull(type_text) == Lower(Strip(OrElse(type_text, ""))) \in {"full", "complete"}

\* Mutant: an incremental map replaces the catalog like a full one.
EngMergeReplaces(existing, entries, is_full) == entries

\* The merge of process_engineering_source_map (client.py 503-509).
EngMerge(existing, entries, is_full) ==
    IF is_full THEN entries ELSE OdPutAll(existing, entries)

\* process_engineering_source_map (client.py 477-512).
process_engineering_source_map(c, doc) ==
    IF ~doc.wellformed \/ ~doc.has_elem THEN c
    ELSE LET entries == EngEntries(<<>>, doc.sources)
             merged == EngMerge(c.engineering_sources, entries, MapIsFull(doc.type))
         IN  [c EXCEPT !.engineering_sources = merged,
                       !.engineering_sources_ready = (merged # <<>>)]

\* -------------------------------------------------------- display combiner
\* Layer names of the model and what the code's string tests make of them.
BkgdLayers == <<"BkgdA", "BkgdB", "BkgdC", "BkgdD", "BkgdU1", "BkgdU2">>

BkgdDisplays == <<"BKGD A", "BKGD B", "BKGD C", "BKGD D", "BKGD U1", "BKGD U2">>

KeyFillLayers ==
    <<"key1-fill", "key2-fill", "key3-fill", "key4-fill", "key5-fill", "key6-fill">>

KeyCutLayers ==
    <<"key1-cut", "key2-cut", "key3-cut", "key4-cut", "key5-cut", "key6-cut">>

KeyBases == <<"key1", "key2", "key3", "key4", "key5", "key6">>

DigitTexts == <<"1", "2", "3", "4", "5", "6">>

Range(seq) == {seq[i] : i \in DOMAIN seq}

IndexOf(seq, x) == CHOOSE i \in DOMAIN seq : seq[i] = x

\* layer.startswith('Bkgd')
StartsWithBkgd(layer) == layer \in Range(BkgdLayers)

\* 'key' in layer.lower()
ContainsKey(layer) == layer \in Range(KeyFillLayers) \cup Range(KeyCutLayers)

\* '-fill' in layer
ContainsFill(layer) == layer \in Range(KeyFillLayers)

\* layer.replace('key', '').replace('-fill', '')
KeyNumText(layer) == DigitTexts[IndexOf(KeyFillLayers, layer)]

\* layer.replace('-fill', '').replace('-cut', '')
StripFillCut(layer) ==
    IF layer \in Range(KeyFillLayers) THEN KeyBases[IndexOf(KeyFillLayers, layer)]
    ELSE IF layer \in Range(KeyCutLayers) THEN KeyBases[IndexOf(KeyCutLayers, layer)]
    ELSE layer

\* Whether the loop of client.py 357-383 reaches the source lookup for the
\* layer: a background, or a key fill ("-cut" and unknown names `continue`).
LayerShown(layer) == StartsWithBkgd(layer) \/ (ContainsKey(layer) /\ ContainsFill(layer))

\* layer_display of a shown layer (client.py 359-379).
LayerDisplay(layer) ==
    IF StartsWithBkgd(layer) THEN <<BkgdDisplays[IndexOf(BkgdLayers, layer)]>>
    ELSE <<"KEY ", KeyNumText(layer)>>

\* The f-strings of client.py 390-394 and 229-234, as tuples of their pieces.
LineNamed(label, name, id) == <<label, ": ", name, " (", id, ")">>

LineSource(label, id) == <<label, ": Source ", id>>

LineNoSource(label) == <<label, ": No Source">>

SEPARATOR == <<"-------------">>

NOT_ALLOCATED == << <<"Not Allocated">> >>

BKGD_A_NO_SOURCE == << <<"BKGD A: NO SOURCE">> >>

\* source_id of a layer (client.py 385-388).
LayerSourceId(lsrc, layer) ==
    LET first == DictGet(lsrc, StripFillCut(layer), Absent)
    IN  IF first = Absent \/ first = "" THEN DictGet(lsrc, layer, Absent) ELSE first

\* source_text of a layer (client.py 389-394).
SourceText(names, lsrc, layer) ==
    LET sid == LayerSourceId(lsrc, layer)
        label == LayerDisplay(layer)
    IN  IF sid # Absent /\ sid # "" /\ sid \in DOMAIN names
        THEN LineNamed(label, names[sid], sid)
        ELSE IF sid # Absent /\ sid # "" THEN LineSource(label, sid)
        ELSE LineNoSource(label)

\* The sort key of client.py 403: the number after 'KEY ', 0 without one.
LineSortKey(line) == IF line[1][1] = "KEY " THEN ParseInt(line[1][2]) ELSE 0

\* x inserted after every element whose key is not greater (list.sort is stable).
RECURSIVE InsertByKey(_, _)
InsertByKey(sorted, x) ==
    IF sorted = <<>> THEN <<x>>
    ELSE IF LineSortKey(sorted[1]) <= LineSortKey(x)
         THEN <<sorted[1]>> \o InsertByKey(Tail(sorted), x)
         ELSE <<x>> \o sorted

RECURSIVE StableSort(_)
StableSort(lines) ==
    IF lines = <<>> THEN <<>>
    ELSE InsertByKey(StableSort(SubSeq(lines, 1, Len(lines) - 1)), lines[Len(lines)])

\* keyer_parts / background_parts before sorting (client.py 357-399).
PartsOf(names, lsrc, active, keyers) ==
    LET shown == SelectSeq(active, LAMBDA l : LayerShown(l) /\ (ContainsKey(l) <=> keyers))
    IN  [i \in DOMAIN shown |-> SourceText(names, lsrc, shown[i])]

\* Mutant: the keyer lines left in arrival order.
CombinePartsUnsorted(keyer_parts, background_parts) ==
    keyer_parts
    \o (IF keyer_parts # <<>> /\ background_parts # <<>> THEN <<SEPARATOR>> ELSE <<>>)
    \o background_parts

\* all_parts (client.py 401-410).
CombineParts(keyer_parts, background_parts) ==
    StableSort(keyer_parts)
    \o (IF keyer_parts # <<>> /\ background_parts # <<>> THEN <<SEPARATOR>> ELSE <<>>)
    \o background_parts

DisplayLines(names, lsrc, active) ==
    CombineParts(PartsOf(names, lsrc, active, TRUE), PartsOf(names, lsrc, active, FALSE))

\* Mutant: the entry is written whatever the combiner made, an empty text
\* included.
update_vpe_display_blanking(c, suite_index, vpe_name) ==
    IF c.source_names = EmptyDict THEN c
    ELSE LET active == DictGet(c.on_air_layers[suite_index], vpe_name, <<>>)
             lsrc == DictGet(c.layer_sources[suite_index], vpe_name, EmptyDict)
             all_parts == DisplayLines(c.source_names, lsrc, active)
         IN  [c EXCEPT !.current_on_air[suite_index] = DictPut(@, vpe_name, all_parts)]

\* update_vpe_display (client.py 346-414).
update_vpe_display(c, suite_index, vpe_name) ==
    IF c.source_names = EmptyDict THEN c
    ELSE LET active == DictGet(c.on_air_layers[suite_index], vpe_name, <<>>)
             lsrc == DictGet(c.layer_sources[suite_index], vpe_name, EmptyDict)
             all_parts == DisplayLines(c.source_names, lsrc, active)
         IN  IF all_parts = <<>> THEN c
             ELSE [c EXCEPT !.current_on_air[suite_index] =
                                DictPut(@, vpe_name, all_parts)]

\* The <<suite, vpe>> pairs the refresh loops visit (client.py 240-243, 470-473).
RefreshTargets(c) ==
    {<<s, v>> \in (0..(NumSuites - 1)) \X UNION {DOMAIN c.on_air_layers[s] : s \in SuiteKeys} :
        v \in DOMAIN c.on_air_layers[s] /\ c.on_air_layers[s][v] # <<>>}

RECURSIVE RefreshEach(_, _)
RefreshEach(c, targets) ==
    IF targets = {} THEN c
    ELSE LET t == CHOOSE t \in targets : TRUE
         IN  RefreshEach(update_vpe_display(c, t[1], t[2]), targets \ {t})

RefreshDisplays(c) == RefreshEach(c, RefreshTargets(c))

\* -------------------------------------------------------------- VPE input
\* Suite index of the VPE handlers (client.py 166-176, 305-315): 0 without a
\* Suite attribute, suite number - 1 otherwise; int() raises on other text.
VpeSuiteRaises(doc) == doc.suite # Absent /\ ~IsInt(doc.suite)

VpeSuiteIndex(doc) == IF doc.suite = Absent THEN 0 ELSE ParseInt(doc.suite) - 1

\* The slots a section is scanned for, in scan order (client.py 186-203).
InputSlots == KeyFillLayers \o BkgdLayers

\* The first critical section of a VPE section (client.py 184-203): every
\* slot whose tag is present with non-empty content is stored, stripped.
RECURSIVE StoreSlots(_, _, _)
StoreSlots(lsrc, slots, todo) ==
    IF todo = <<>> THEN lsrc
    ELSE LET slot == todo[1]
         IN  IF slot \in DOMAIN slots /\ slots[slot] # ""
             THEN StoreSlots(DictPut(lsrc, slot, Strip(slots[slot])), slots, Tail(todo))
             ELSE StoreSlots(lsrc, slots, Tail(todo))

store_layer_sources(c, suite_index, section) ==
    LET old == DictGet(c.layer_sources[suite_index], section.name, EmptyDict)
        new == StoreSlots(old, section.slots, InputSlots)
    IN  IF new = old THEN c
        ELSE [c EXCEPT !.layer_sources[suite_index] = DictPut(@, section.name, new)]

\* is_acquired (client.py 205-214).
IsAcquired(section) == section.acquired = "True"

\* display_name (client.py 226-234).
BkgdADisplay(names, source_id) ==
    IF source_id # ""
    THEN IF source_id \in DOMAIN names
         THEN <<LineNamed(<<"BKGD A">>, names[source_id], source_id)>>
         ELSE <<LineSource(<<"BKGD A">>, source_id)>>
    ELSE BKGD_A_NO_SOURCE

\* The second critical section of a VPE section (client.py 216-238).
store_on_air(c, suite_index, section) ==
    IF IsAcquired(section)
    THEN IF "BkgdA" \in DOMAIN section.slots
         THEN [c EXCEPT !.current_on_air[suite_index] =
                   DictPut(@, section.name,
                           BkgdADisplay(c.source_names, Strip(section.slots["BkgdA"])))]
         ELSE c
    ELSE [c EXCEPT !.current_on_air[suite_index] = DictPut(@, section.name, NOT_ALLOCATED)]

RECURSIVE VpeInputSections(_, _, _)
VpeInputSections(c, suite_index, sections) ==
    IF sections = <<>> THEN c
    ELSE LET section == sections[1]
         IN  IF section.name = ""
             THEN VpeInputSections(c, suite_index, Tail(sections))
             ELSE VpeInputSections(
                      store_on_air(store_layer_sources(c, suite_index, section),
                                   suite_index, section),
                      suite_index, Tail(sections))

\* process_vpe_input_simple (client.py 162-246).
process_vpe_input_simple(c, doc) ==
    IF VpeSuiteRaises(doc) THEN c
    ELSE RefreshDisplays(VpeInputSections(c, VpeSuiteIndex(doc), doc.sections))

\* ------------------------------------------------------------- VPE output
\* active_layers of a program-bus block (client.py 331-337).
ActiveLayers(pgm) ==
    LET kept == SelectSeq(pgm, LAMBDA raw : raw # "")
    IN  [i \in DOMAIN kept |-> Strip(kept[i])]

\* Mutant: the program bus of a section is stored whether or not the VPE is
\* acquired.
store_active_layers_any(c, suite_index, section) ==
    IF section.name # "" /\ section.has_pgm
    THEN update_vpe_display(
             [c EXCEPT !.on_air_layers[suite_index] =
                           DictPut(@, section.name, ActiveLayers(section.pgm))],
             suite_index, section.name)
    ELSE c

\* One VPE section of process_vpe_output_layers (client.py 319-342).
store_active_layers(c, suite_index, section) ==
    IF section.name # "" /\ section.acquired = "True" /\ section.has_pgm
    THEN update_vpe_display(
             [c EXCEPT !.on_air_layers[suite_index] =
                           DictPut(@, section.name, ActiveLayers(section.pgm))],
             suite_index, section.name)
    ELSE c

RECURSIVE VpeOutputSections(_, _, _)
VpeOutputSections(c, suite_index, sections) ==
    IF sections = <<>> THEN c
    ELSE VpeOutputSections(store_active_layers(c, suite_index, sections[1]),
                           suite_index, Tail(sections))

\* process_vpe_output_layers (client.py 301-345).
process_vpe_output_layers(c, doc) ==
    IF VpeSuiteRaises(doc) THEN c
    ELSE VpeOutputSections(c, VpeSuiteIndex(doc), doc.sections)

\* ----------------------------------------------------- logical source map
LogicalSuiteIndex(doc) ==
    LET suite_attr == OrElse(doc.suite, "1")
    IN  IF IsInt(suite_attr)
        THEN (IF ParseInt(suite_attr) - 1 > 0 THEN ParseInt(suite_attr) - 1 ELSE 0)
        ELSE 0

RECURSIVE LogicalEntries(_, _)
LogicalEntries(acc, srcs) ==
    IF srcs = <<>> THEN acc
    ELSE LET e == srcs[1]
             log_id == Strip(OrElse(e.ID, ""))
             data == [id |-> log_id, name |-> Strip(OrElse(e.Name, "")),
                      type |-> Strip(OrElse(e.Type, "")), vsources |-> e.vsources]
         IN  LogicalEntries(OdPut(acc, log_id, data), Tail(srcs))

\* source_names after the pops and the stores of client.py 462-468.
RECURSIVE StoreNames(_, _)
StoreNames(names, entries) ==
    IF entries = <<>> THEN names
    ELSE LET data == entries[1][2]
         IN  StoreNames(IF data.name # "" THEN DictPut(names, entries[1][1], data.name)
                        ELSE names,
                        Tail(entries))

\* Mutant: one of the removed ids keeps its cached name.
PurgeNamesButOne(names, removed_ids) ==
    IF removed_ids = {} THEN names
    ELSE LET kept == CHOOSE id \in removed_ids : TRUE
         IN  [k \in (DOMAIN names) \ (removed_ids \ {kept}) |-> names[k]]

\* Mutant: the names of removed ids stay cached.
PurgeNamesKeepsAll(names, removed_ids) == names

\* source_names after the pops of client.py 462-465.
PurgeNames(names, removed_ids) == [k \in (DOMAIN names) \ removed_ids |-> names[k]]

\* The critical section of process_logical_source_map (client.py 448-468).
store_logical_map(c, doc) ==
    LET suite_index == LogicalSuiteIndex(doc)
        entries == LogicalEntries(<<>>, doc.sources)
        existing_entries == c.logical_sources[suite_index]
        is_full == MapIsFull(doc.type)
        logical_map == IF is_full THEN entries ELSE OdPutAll(existing_entries, entries)
        removed_ids == IF is_full THEN OdKeys(existing_entries) \ OdKeys(logical_map)
                       ELSE {}
    IN  [c EXCEPT !.logical_sources[suite_index] = logical_map,
                  !.logical_suites_ready =
                      IF logical_map # <<>> THEN @ \cup {suite_index}
                      ELSE @ \ {suite_index},
                  !.source_names = StoreNames(PurgeNames(@, removed_ids), entries)]

\* Mutant: a document that does not parse is taken for an empty full map.
process_logical_source_map_lenient(c, doc) ==
    IF ~doc.wellformed
    THEN [c EXCEPT !.logical_sources = [s \in SuiteKeys |-> <<>>],
                   !.logical_suites_ready = {},
                   !.source_names = EmptyDict]
    ELSE IF ~doc.has_elem THEN c
    ELSE RefreshDisplays(store_logical_map(c, doc))

\* process_logical_source_map (client.py 415-475).
process_logical_source_map(c, doc) ==
    IF ~doc.wellformed \/ ~doc.has_elem THEN c
    ELSE RefreshDisplays(store_logical_map(c, doc))

\* ------------------------------------------------------- session, sending
\* The operations that write to the socket are functions of an io value: the
\* client, the time of the operation, the write attempts of the operation
\* that the network refuses (by their number within the operation), the
\* attempts made so far with their outcome, the calls of request_data made,
\* the return value of the last call, and the calls of trigger_gui_update
\* made (client.py 536-540).
IO(c, t, fails) ==
    [c |-> c, t |-> t, fails |-> fails, out |-> <<>>, bursts |-> 0, ok |-> TRUE,
     updates |-> 0]

\* The network refuses no write.
NoFailure == {}

\* The most write attempts one operation makes: start() with its retry
\* (client.py 591-595): authenticate, then twice seven requests and a heartbeat.
MaxWrites == 17

\* The network refuses every write.
AllFail == 1..MaxWrites

\* Mutant: a write that fails marks the session disconnected.
send_message_disconnecting(io, message) ==
    IF ~io.c.connected THEN [io EXCEPT !.ok = FALSE]
    ELSE LET k == Len(io.out) + 1
             good == io.c.sock = "open" /\ k \notin io.fails
         IN  [io EXCEPT !.out = Append(@, [msg |-> message, ok |-> good]), !.ok = good,
                        !.c.connected = good]

\* send_message (client.py 68-77): False without an attempt when not
\* connected; False when socket.send raises (the network refuses the write,
\* or the socket was closed).
send_message(io, message) ==
    IF ~io.c.connected THEN [io EXCEPT !.ok = FALSE]
    ELSE LET k == Len(io.out) + 1
             good == io.c.sock = "open" /\ k \notin io.fails
         IN  [io EXCEPT !.out = Append(@, [msg |-> message, ok |-> good]), !.ok = good]

\* send_heartbeat (client.py 113-121): arms the response deadline when sent.
send_heartbeat(io) ==
    LET r == send_message(io, "Heartbeat-Request")
    IN  IF r.ok
        THEN [r EXCEPT !.c.response_timer_start = io.t,
                       !.c.response_timer = RESPONSE_TIMEOUT]
        ELSE r

\* authenticate (client.py 78-96): arms the response deadline when sent.
authenticate(io) ==
    LET r == send_message(io, "Authentication-Request")
    IN  IF r.ok
        THEN [r EXCEPT !.c.response_timer_start = io.t,
                       !.c.response_timer = RESPONSE_TIMEOUT]
        ELSE r

\* Mutant: the configuration request goes out before the subscription.
RequestsReordered ==
    <<"Configuration-Request", "TallySubscription-Request",
      "EngineeringSourceMap-Request", "LogicalSourceMap-Request",
      "VPEInputMap-Request", "VPEOutputMap-Request", "OutputTallyMap-Request">>

\* requests of request_data (client.py 99-107).
Requests ==
    <<"TallySubscription-Request", "Configuration-Request",
      "EngineeringSourceMap-Request", "LogicalSourceMap-Request",
      "VPEInputMap-Request", "VPEOutputMap-Request", "OutputTallyMap-Request">>

\* The loop of request_data from the i-th request on (client.py 108-112).
RECURSIVE request_data_from(_, _)
request_data_from(io, i) ==
    IF i > Len(Requests) THEN [io EXCEPT !.ok = TRUE]
    ELSE LET r == send_message(io, Requests[i])
         IN  IF ~r.ok THEN r ELSE request_data_from(r, i + 1)

\* request_data (client.py 97-112).
request_data(io) == request_data_from([io EXCEPT !.bursts = @ + 1], 1)

\* _send_initial_requests (client.py 58-66): returns what request_data
\* returned, whatever became of the heartbeat.
send_initial_requests(io) ==
    IF io.c.initial_requests_sent THEN [io EXCEPT !.ok = TRUE]
    ELSE LET r == request_data(io)
         IN  IF r.ok
             THEN [send_heartbeat([r EXCEPT !.c.initial_requests_sent = TRUE])
                      EXCEPT !.ok = TRUE]
             ELSE r

\* Mutant: the running flag is raised before the connect is attempted.
start_running_first(io, connect_ok) ==
    IF ~connect_ok
    THEN [io EXCEPT !.c.sock = "unconnected", !.c.running = TRUE, !.ok = FALSE]
    ELSE LET io1 == [io EXCEPT !.c.sock = "open", !.c.connected = TRUE,
                               !.c.running = TRUE]
             a == authenticate(io1)
         IN  IF ~a.ok THEN a
             ELSE LET first == send_initial_requests(a)
                  IN  IF first.ok THEN first ELSE send_initial_requests(first)

\* start (client.py 581-598), with connect (45-56).
start(io, connect_ok) ==
    IF ~connect_ok THEN [io EXCEPT !.c.sock = "unconnected", !.ok = FALSE]
    ELSE LET io1 == [io EXCEPT !.c.sock = "open", !.c.connected = TRUE,
                               !.c.running = TRUE]
             a == authenticate(io1)
         IN  IF ~a.ok THEN a
             ELSE LET first == send_initial_requests(a)
                  IN  IF first.ok THEN first ELSE send_initial_requests(first)

\* Mutant: closing a socket that is closed already fails, and the failure
\* shows in the socket's state.
stop_strict(c) ==
    [c EXCEPT !.running = FALSE, !.initial_requests_sent = FALSE,
              !.sock = IF @ = "none" THEN "none"
                       ELSE IF @ = "closed" THEN "failed" ELSE "closed"]

\* stop (client.py 599-605).
stop(c) ==
    [c EXCEPT !.running = FALSE, !.initial_requests_sent = FALSE,
              !.sock = IF @ = "none" THEN "none" ELSE "closed"]

\* Mutant: a later session-complete marker goes back to the fast interval.
process_set_complete_toggling(c) ==
    [c EXCEPT !.data_complete = ~@,
              !.heartbeat_interval = IF c.data_complete THEN HEARTBEAT_INTERVAL
                                     ELSE HEARTBEAT_INTERVAL_LONG]

\* The session-complete branch of process_xml_chunk (client.py 144-149).
process_set_complete(c) ==
    [c EXCEPT !.data_complete = TRUE, !.heartbeat_interval = HEARTBEAT_INTERVAL_LONG]

\* The heartbeat-response branch (client.py 150-154).
process_heartbeat(c, t) ==
    [c EXCEPT !.last_heartbeat_response = t, !.response_timer = 0]

\* The authentication-response branch (client.py 155-159).
process_authentication(io) ==
    send_initial_requests([io EXCEPT !.c.response_timer = 0])

\* Whether a wake-up of the heartbeat worker finds the deadline elapsed
\* (client.py 570-572).
DeadlineElapsed(c, t) ==
    c.response_timer > 0 /\ t - c.response_timer_start >= c.response_timer

\* One wake-up of heartbeat_worker with running true (client.py 568-580).
heartbeat_wake(io) ==
    send_heartbeat(IF DeadlineElapsed(io.c, io.t)
                   THEN [io EXCEPT !.c.response_timer = 0] ELSE io)

\* -------------------------------------------------------------- dispatcher
\* The marker substrings process_xml_chunk tests, in its order (client.py 126-155).
MarkerOrder ==
    <<"<VPEInputContribution", "<VPEInputMap", "<EngineeringSourceMap",
      "<LogicalSourceMap", "<OutputTally", "<VPEOutputContribution",
      "<SetComplete/>", "<Heartbeat>", "<Authentication>">>

\* Mutant: the last marker of the order the document contains wins.
LastMarker(doc) ==
    IF \E i \in DOMAIN MarkerOrder : MarkerOrder[i] \in doc.markers
    THEN MarkerOrder[CHOOSE i \in DOMAIN MarkerOrder :
                        /\ MarkerOrder[i] \in doc.markers
                        /\ \A j \in (i + 1)..Len(MarkerOrder) :
                               MarkerOrder[j] \notin doc.markers]
    ELSE Absent

\* The first marker of the order the document contains; Absent without one.
FirstMarker(doc) ==
    IF \E i \in DOMAIN MarkerOrder : MarkerOrder[i] \in doc.markers
    THEN MarkerOrder[CHOOSE i \in DOMAIN MarkerOrder :
                        /\ MarkerOrder[i] \in doc.markers
                        /\ \A j \in 1..(i - 1) : MarkerOrder[j] \notin doc.markers]
    ELSE Absent

\* Whether the handler of a document reaches its trigger_gui_update call
\* (client.py 244, 300, 343, 512, 149): the VPE handlers skip it when int()
\* raised on the suite, the tally and engineering handlers return before it
\* on a document they cannot parse or without their element, and
\* process_logical_source_map has no such call.
Triggers(m, doc) ==
    CASE m \in {"<VPEInputContribution", "<VPEInputMap", "<VPEOutputContribution"}
             -> ~VpeSuiteRaises(doc)
      [] m \in {"<EngineeringSourceMap", "<OutputTally"}
             -> doc.wellformed /\ doc.has_elem
      [] m = "<SetComplete/>" -> TRUE
      [] OTHER -> FALSE

\* process_xml_chunk (client.py 122-161).
process_xml_chunk(io, doc) ==
    LET m == FirstMarker(doc)
        c == io.c
        r == CASE m = "<VPEInputContribution"  -> [io EXCEPT !.c = process_vpe_input_simple(c, doc)]
               [] m = "<VPEInputMap"           -> [io EXCEPT !.c = process_vpe_input_simple(c, doc)]
               [] m = "<EngineeringSourceMap"  -> [io EXCEPT !.c = process_engineering_source_map(c, doc)]
               [] m = "<LogicalSourceMap"      -> [io EXCEPT !.c = process_logical_source_map(c, doc)]
               [] m = "<OutputTally"           -> [io EXCEPT !.c = process_output_tally(c, doc)]
               [] m = "<VPEOutputContribution" -> [io EXCEPT !.c = process_vpe_output_layers(c, doc)]
               [] m = "<SetComplete/>"         -> [io EXCEPT !.c = process_set_complete(c)]
               [] m = "<Heartbeat>"            -> [io EXCEPT !.c = process_heartbeat(c, io.t)]
               [] m = "<Authentication>"       -> process_authentication(io)
               [] OTHER                        -> io
    IN  IF Triggers(m, doc) THEN [r EXCEPT !.updates = @ + 1] ELSE r

\* ---------------------------------------------------------------- actions
\* Whether a heartbeat request was written among the attempts.
HeartbeatSent(out) ==
    \E i \in DOMAIN out : out[i].msg = "Heartbeat-Request" /\ out[i].ok

\* The oldest heartbeat request without a response, after an operation at
\* time t that made the write attempts out.
StillUnanswered(since, out, t) ==
    IF since = Never /\ HeartbeatSent(out) THEN {t} ELSE since

\* start() on the caller's thread, once per client object (gui.py 1661-1665);
\* oks are the outcomes of the connect, nets the write attempts the network
\* may refuse.
Start(oks, nets) ==
    /\ sock = "none"
    /\ \E connect_ok \in oks, net \in nets :
           LET r == start(IO(Client, now, net), connect_ok)
           IN  /\ SetClient(r.c)
               /\ writes' = r.out
               /\ bursts' = bursts + r.bursts
               /\ start_ok' = IF r.ok THEN "true" ELSE "false"
               /\ unanswered_since' = StillUnanswered(unanswered_since, r.out, now)
               /\ threads' = IF connect_ok THEN [recv |-> "alive", hb |-> "alive"]
                              ELSE threads
    /\ hb_wake' = now + heartbeat_interval
    /\ UNCHANGED <<now, docHist, auth_seen, timeouts, silent_wakes, stops, names_seen,
                   updates,
                   framerVars, lockVars, reg_pc, cbVars>>

\* Whether a dispatched document is a full snapshot of its family.
DocIsFull(doc) ==
    LET m == FirstMarker(doc)
    IN  /\ m \in {"<OutputTally", "<EngineeringSourceMap", "<LogicalSourceMap"}
        /\ doc.wellformed
        /\ doc.has_elem
        /\ IF m = "<OutputTally" THEN TallyIsFull(doc) ELSE MapIsFull(doc.type)

\* The receive worker hands one complete document to process_xml_chunk.
Dispatch(docs, nets) ==
    /\ running
    /\ sock = "open"
    /\ ndocs < MaxDocs
    /\ \E doc \in docs, net \in nets :
           LET r == process_xml_chunk(IO(Client, now, net), doc)
               m == FirstMarker(doc)
           IN  /\ SetClient(r.c)
               /\ last_doc' = doc
               /\ prev_full' = DocIsFull(last_doc)
               /\ markers_done' = markers_done + (IF m = "<SetComplete/>" THEN 1 ELSE 0)
               /\ writes' = r.out
               /\ bursts' = bursts + r.bursts
               /\ auth_seen' = (auth_seen \/ m = "<Authentication>")
               /\ names_seen' = (names_seen \/ r.c.source_names # EmptyDict)
               /\ unanswered_since' =
                      IF m = "<Heartbeat>" THEN Never
                      ELSE StillUnanswered(unanswered_since, r.out, now)
               /\ silent_wakes' = IF m = "<Heartbeat>" THEN 0 ELSE silent_wakes
               /\ updates' = r.updates
    /\ ndocs' = ndocs + 1
    /\ UNCHANGED <<timeouts, start_ok, stops, threads, envVars, framerVars, lockVars, reg_pc, cbVars>>

\* -------------------------------------------------------------- documents
TallyDoc(type, outputs) ==
    [markers |-> {"<OutputTally"}, wellformed |-> TRUE, has_elem |-> TRUE,
     type |-> type, outputs |-> outputs]

EngDoc(type, sources) ==
    [markers |-> {"<EngineeringSourceMap"}, wellformed |-> TRUE, has_elem |-> TRUE,
     type |-> type, sources |-> sources]

LogicalDoc(suite, type, sources) ==
    [markers |-> {"<LogicalSourceMap"}, wellformed |-> TRUE, has_elem |-> TRUE,
     suite |-> suite, type |-> type, sources |-> sources]

VpeInputDoc(suite, sections) ==
    [markers |-> {"<VPEInputMap"}, suite |-> suite, sections |-> sections]

VpeOutputDoc(suite, sections) ==
    [markers |-> {"<VPEOutputContribution"}, suite |-> suite, sections |-> sections]

\* A document ElementTree cannot parse.
MalformedDoc(marker) == [markers |-> {marker}, wellformed |-> FALSE, has_elem |-> FALSE]

MarkerDoc(marker) == [markers |-> {marker}]

\* Output elements of the output-tally documents of the model.
TallyOutputs ==
    [Name : {"Aux 1", "PGM"}, Suite : {"1", "2"}, OutNum : {"1", "2"}, LogSrc : {"5"}]

TallyFirst == [Name |-> "Aux 1", Suite |-> "1", OutNum |-> "2", LogSrc |-> "7"]

TallyDocs ==
    {TallyDoc(t, <<e>>) : t \in {"full", "Update"}, e \in TallyOutputs}
    \cup {TallyDoc(t, <<TallyFirst, e>>) : t \in {"full", "Update"}, e \in TallyOutputs}
    \cup {MalformedDoc("<OutputTally")}

NextTally ==
    \/ Start({TRUE}, {NoFailure})
    \/ Dispatch(TallyDocs, {NoFailure})

SpecTally == Init /\ [][NextTally]_vars

\* Source elements of the engineering-source-map documents of the model.
EngSources ==
    [ID : {"e1", "e2", "e3"}, Name : {"CAM1", "CAM2"}, Type : {"SDI"}, BNC : {"1"}]

EngSeqs ==
    {<<>>} \cup {<<e>> : e \in EngSources}
    \cup {<<a, e>> : a \in {x \in EngSources : x.ID = "e2"}, e \in EngSources}

EngDocs ==
    {EngDoc(t, srcs) : t \in {"full", ""}, srcs \in EngSeqs}
    \cup {EngDoc("Complete", <<>>), MalformedDoc("<EngineeringSourceMap")}

NextEng ==
    \/ Start({TRUE}, {NoFailure})
    \/ Dispatch(EngDocs, {NoFailure})

SpecEng == Init /\ [][NextEng]_vars

\* ------------------------------------------------------------------ claims
\* What the claims say of a catalog: the item stored under a key, NoItem
\* when the key is not stored.
NoItem == [name |-> Absent]

ItemOf(od, k) == IF OdHas(od, k) THEN OdGet(od, k) ELSE NoItem

IsTallyDoc(doc) == FirstMarker(doc) = "<OutputTally"

\* The Output elements a tally document carries for suite key s, and the
\* last of them for output number n (among the aux-named ones when aux).
TallyCarried(doc, s, aux) ==
    SelectSeq(doc.outputs,
              LAMBDA e : ParseInt(e.Suite) - 1 = s /\ (aux => e.Name \in {"Aux 1"}))

TallyNums(doc, s, aux) ==
    {ParseInt(TallyCarried(doc, s, aux)[i].OutNum) : i \in DOMAIN TallyCarried(doc, s, aux)}

TallyLast(doc, s, n, aux) ==
    LET es == SelectSeq(TallyCarried(doc, s, aux), LAMBDA e : ParseInt(e.OutNum) = n)
    IN  [name |-> es[Len(es)].Name, logsrc |-> es[Len(es)].LogSrc]

CatalogIsExactly(od, doc, s, aux) ==
    /\ OdKeys(od) = TallyNums(doc, s, aux)
    /\ \A n \in OdKeys(od) : OdGet(od, n) = TallyLast(doc, s, n, aux)

\* C1: after a "full" OutputTally that carries at least one output for suite
\* S, OutputCatalog[S] and AuxCatalog[S] hold exactly the entries the document
\* carries for S (AuxCatalog: the aux-named ones); nothing older survives,
\* also when the new set for S has no aux-named output.
C1_FullTallyReplacesBothCatalogs ==
    (IsTallyDoc(last_doc) /\ last_doc.wellformed /\ last_doc.type = "full") =>
        \A s \in SuiteKeys :
            TallyNums(last_doc, s, FALSE) # {} =>
                /\ CatalogIsExactly(all_outputs[s], last_doc, s, FALSE)
                /\ CatalogIsExactly(aux_assignments[s], last_doc, s, TRUE)

\* C2: an incremental OutputTally changes only the output numbers it
\* mentions: every other output number of every suite keeps its item (or
\* its absence) in OutputCatalog and AuxCatalog, and a suite the document
\* does not mention keeps both catalogs as they were.
C2_IncrementalTallyKeepsUnmentioned ==
    [][(ndocs' = ndocs + 1 /\ IsTallyDoc(last_doc')
        /\ (last_doc'.wellformed => last_doc'.type # "full")) =>
          LET nums(s) == IF last_doc'.wellformed THEN TallyNums(last_doc', s, FALSE) ELSE {}
          IN  \A s \in SuiteKeys :
                /\ \A n \in (OdKeys(all_outputs[s]) \cup OdKeys(all_outputs'[s])
                             \cup OdKeys(aux_assignments[s])
                             \cup OdKeys(aux_assignments'[s])) \ nums(s) :
                       /\ ItemOf(all_outputs'[s], n) = ItemOf(all_outputs[s], n)
                       /\ ItemOf(aux_assignments'[s], n) = ItemOf(aux_assignments[s], n)
                /\ nums(s) = {} => /\ all_outputs'[s] = all_outputs[s]
                                   /\ aux_assignments'[s] = aux_assignments[s]
      ]_vars

\* C2 witness: an incremental tally for one output number of a suite has been
\* processed while another output number of that suite is stored in both
\* catalogs and another suite has outputs stored.
C2_Witness ==
    /\ IsTallyDoc(last_doc) /\ last_doc.wellformed /\ last_doc.type # "full"
    /\ \E s \in SuiteKeys :
         /\ TallyNums(last_doc, s, FALSE) # {}
         /\ \E n \in OdKeys(all_outputs[s]) \cap OdKeys(aux_assignments[s]) :
                n \notin TallyNums(last_doc, s, FALSE)
         /\ \E s2 \in SuiteKeys \ {s} :
                TallyNums(last_doc, s2, FALSE) = {} /\ all_outputs[s2] # <<>>

IsEngDoc(doc) == FirstMarker(doc) = "<EngineeringSourceMap"

EngIds(doc) == {doc.sources[i].ID : i \in DOMAIN doc.sources}

\* The value the last EngSrc element with the id gives.
EngLast(doc, id) ==
    LET es == SelectSeq(doc.sources, LAMBDA e : e.ID = id)
        e == es[Len(es)]
    IN  [id |-> e.ID, name |-> e.Name, type |-> e.Type, bnc |-> e.BNC]

\* C3: a "full" EngineeringSourceMap leaves exactly its own ids in the
\* EngineeringSourceCatalog; an incremental one keeps every id it does not
\* carry at the value it had (full-snapshot ids included), sets every id it
\* carries to its own value, and adds the ids that are new.
C3_EngineeringFullThenIncremental ==
    [][(ndocs' = ndocs + 1 /\ IsEngDoc(last_doc') /\ last_doc'.wellformed) =>
          LET doc == last_doc'
          IN  /\ \A id \in EngIds(doc) :
                     ItemOf(engineering_sources', id) = EngLast(doc, id)
              /\ IF doc.type \in {"full", "Complete"}
                 THEN OdKeys(engineering_sources') = EngIds(doc)
                 ELSE /\ OdKeys(engineering_sources') =
                             OdKeys(engineering_sources) \cup EngIds(doc)
                      /\ \A id \in OdKeys(engineering_sources) \ EngIds(doc) :
                             ItemOf(engineering_sources', id) =
                                 ItemOf(engineering_sources, id)
      ]_vars

\* C3 witness: an incremental map has been processed right after a full one;
\* the catalog holds an id only the full snapshot carried, an id of both with
\* the incremental value, and an id only the incremental carried.
C3_Witness ==
    /\ IsEngDoc(last_doc) /\ last_doc.wellformed /\ last_doc.type = ""
    /\ prev_full
    /\ ndocs = 2
    /\ last_doc.sources = <<[ID |-> "e2", Name |-> "CAM2", Type |-> "SDI", BNC |-> "1"],
                            [ID |-> "e3", Name |-> "CAM1", Type |-> "SDI", BNC |-> "1"]>>
    /\ Len(engineering_sources) = 3
    /\ engineering_sources[1] =
           <<"e2", [id |-> "e2", name |-> "CAM2", type |-> "SDI", bnc |-> "1"]>>
    /\ engineering_sources[2] =
           <<"e1", [id |-> "e1", name |-> "CAM1", type |-> "SDI", bnc |-> "1"]>>
    /\ engineering_sources[3][1] = "e3"

\* Documents of the VPE family and of the logical source map it resolves
\* names with: one suite, the VPEs ME1 and PGM.
LogSources == [ID : {"5", "7"}, Name : {"CAM1", ""}, Type : {"Cam"}, vsources : {<<>>}]

LogicalDocs ==
    {LogicalDoc("1", t, srcs) :
        t \in {"full", ""}, srcs \in {<<>>} \cup {<<e>> : e \in LogSources}}

VpeInSection(name, acquired, slots) ==
    [name |-> name, acquired |-> acquired, slots |-> slots]

VpeOutSection(name, acquired, pgm) ==
    [name |-> name, acquired |-> acquired, has_pgm |-> TRUE, pgm |-> pgm]

SlotSets ==
    {EmptyDict, [x \in {"BkgdA"} |-> "5"], [x \in {"BkgdA"} |-> ""],
     [x \in {"key1-fill", "BkgdA"} |-> IF x = "BkgdA" THEN "5" ELSE "7"]}

VpeInputDocs ==
    {VpeInputDoc("1", <<VpeInSection("ME1", a, sl)>>) :
        a \in {"True", "False"}, sl \in SlotSets}
    \cup {VpeInputDoc("1", <<VpeInSection("PGM", "True", [x \in {"BkgdA"} |-> "7"])>>)}

VpeOutputDocs ==
    {VpeOutputDoc("1", <<VpeOutSection("ME1", "True", pgm)>>) :
        pgm \in {<<>>, <<"BkgdA">>, <<"key1-fill", "BkgdA">>}}
    \cup {VpeOutputDoc("1", <<VpeOutSection("ME1", "False", <<"BkgdA">>)>>),
          VpeOutputDoc("1", <<VpeOutSection("PGM", "True", <<"BkgdA">>)>>)}

VpeDocs == LogicalDocs \cup VpeInputDocs \cup VpeOutputDocs

NextVpe ==
    \/ Start({TRUE}, {NoFailure})
    \/ Dispatch(VpeDocs, {NoFailure})

SpecVpe == Init /\ [][NextVpe]_vars

IsVpeInputDoc(doc) == FirstMarker(doc) \in {"<VPEInputContribution", "<VPEInputMap"}

\* C4: after a VPE-input document with a section for VPE v of suite s that
\* has Acquired="False", OnAirState[s][v] is exactly "Not Allocated",
\* whatever the section's BkgdA and whatever was stored before.
C4_NotAcquiredShowsNotAllocated ==
    IsVpeInputDoc(last_doc) =>
        \A i \in DOMAIN last_doc.sections :
            LET section == last_doc.sections[i]
                s == ParseInt(last_doc.suite) - 1
            IN  section.acquired = "False" =>
                    /\ section.name \in DOMAIN current_on_air[s]
                    /\ current_on_air[s][section.name] = NOT_ALLOCATED

\* ------------------------------------------- handlers, one step at a time
\* The same handlers as the receive worker runs them beside other threads:
\* a `with self.lock` block is an acquire step and a step that runs the
\* block and releases; what a handler does outside a block is a step that
\* takes no lock.

IsVpeFamily(doc) ==
    FirstMarker(doc) \in {"<VPEInputContribution", "<VPEInputMap", "<VPEOutputContribution"}

\* Where a handler goes first.
BeginPc(doc) ==
    LET m == FirstMarker(doc)
    IN  IF IsVpeFamily(doc)
        THEN (IF VpeSuiteRaises(doc) THEN "done" ELSE "sections")
        ELSE IF m = "<LogicalSourceMap"
             THEN (IF ~doc.wellformed \/ ~doc.has_elem THEN "done" ELSE "log_lock")
             ELSE "done"

\* The receive worker hands a document to process_xml_chunk (client.py 555).
RecvBegin(docs) ==
    /\ running
    /\ sock = "open"
    /\ recv_pc = "idle"
    /\ ndocs < MaxDocs
    /\ \E doc \in docs :
           /\ recv_doc' = doc
           /\ recv_pc' = BeginPc(doc)
           /\ recv_sections' = IF BeginPc(doc) = "sections" THEN doc.sections ELSE <<>>
    /\ doc_pre' = Client
    /\ UNCHANGED <<clientVars, envVars, histVars, framerVars,
                   lock, recv_targets, reader_pc, snapshot>>

\* Whether the VPE-input handler enters its second critical section for the
\* section (client.py 216-238).
WritesOnAir(section) == ~IsAcquired(section) \/ "BkgdA" \in DOMAIN section.slots

\* Whether the VPE-output handler stores the section (client.py 320-328).
StoresActiveLayers(section) ==
    section.name # "" /\ section.acquired = "True" /\ section.has_pgm

\* The section loops (client.py 179-182, 318-321): on to the next section's
\* critical section, or out of the loop.
RecvSections ==
    /\ recv_pc = "sections"
    /\ IF recv_sections = <<>>
       THEN IF IsVpeInputDoc(recv_doc)
            THEN recv_pc' = "refresh" /\ recv_targets' = RefreshTargets(Client)
            ELSE recv_pc' = "done" /\ UNCHANGED recv_targets
       ELSE /\ recv_pc' =
                  IF IsVpeInputDoc(recv_doc)
                  THEN (IF recv_sections[1].name = "" THEN "skip" ELSE "slots_lock")
                  ELSE (IF StoresActiveLayers(recv_sections[1]) THEN "out_lock" ELSE "skip")
            /\ UNCHANGED recv_targets
    /\ UNCHANGED <<clientVars, envVars, histVars, framerVars,
                   lock, recv_doc, recv_sections, doc_pre, reader_pc, snapshot>>

\* A section the loop passes over.
RecvSkip ==
    /\ recv_pc = "skip"
    /\ recv_sections' = Tail(recv_sections)
    /\ recv_pc' = "sections"
    /\ UNCHANGED <<clientVars, envVars, histVars, framerVars,
                   lock, recv_doc, recv_targets, doc_pre, reader_pc, snapshot>>

LockPcs == {"slots_lock", "onair_lock", "out_lock", "log_lock"}

CsOf(pc) ==
    CASE pc = "slots_lock" -> "slots_cs"
      [] pc = "onair_lock" -> "onair_cs"
      [] pc = "out_lock"   -> "out_cs"
      [] pc = "log_lock"   -> "log_cs"

\* `with self.lock:` entered by the receive worker.
RecvAcquire ==
    /\ recv_pc \in LockPcs
    /\ lock = "free"
    /\ lock' = "recv"
    /\ recv_pc' = CsOf(recv_pc)
    /\ UNCHANGED <<clientVars, envVars, histVars, framerVars,
                   recv_doc, recv_sections, recv_targets, doc_pre, reader_pc, snapshot>>

\* client.py 184-203, and the lock released.
RecvSlots ==
    /\ recv_pc = "slots_cs"
    /\ SetClient(store_layer_sources(Client, VpeSuiteIndex(recv_doc), recv_sections[1]))
    /\ lock' = "free"
    /\ IF WritesOnAir(recv_sections[1])
       THEN recv_pc' = "onair_lock" /\ UNCHANGED recv_sections
       ELSE recv_pc' = "sections" /\ recv_sections' = Tail(recv_sections)
    /\ UNCHANGED <<envVars, histVars, framerVars,
                   recv_doc, recv_targets, doc_pre, reader_pc, snapshot>>

\* client.py 225-234 or 237-238, and the lock released.
RecvOnAir ==
    /\ recv_pc = "onair_cs"
    /\ SetClient(store_on_air(Client, VpeSuiteIndex(recv_doc), recv_sections[1]))
    /\ lock' = "free"
    /\ recv_pc' = "sections"
    /\ recv_sections' = Tail(recv_sections)
    /\ UNCHANGED <<envVars, histVars, framerVars,
                   recv_doc, recv_targets, doc_pre, reader_pc, snapshot>>

\* client.py 339-342, and the lock released.
RecvActiveLayers ==
    /\ recv_pc = "out_cs"
    /\ SetClient(store_active_layers(Client, VpeSuiteIndex(recv_doc), recv_sections[1]))
    /\ lock' = "free"
    /\ recv_pc' = "sections"
    /\ recv_sections' = Tail(recv_sections)
    /\ UNCHANGED <<envVars, histVars, framerVars,
                   recv_doc, recv_targets, doc_pre, reader_pc, snapshot>>

\* client.py 448-468, and the lock released.
RecvLogical ==
    /\ recv_pc = "log_cs"
    /\ SetClient(store_logical_map(Client, recv_doc))
    /\ lock' = "free"
    /\ recv_pc' = "refresh"
    /\ recv_targets' = RefreshTargets(Client)
    /\ names_seen' = (names_seen \/ source_names' # EmptyDict)
    /\ UNCHANGED <<envVars, docHist, wireHist, beatHist, stops, noteVars, framerVars,
                   recv_doc, recv_sections, doc_pre, reader_pc, snapshot>>

\* One update_vpe_display call of a refresh loop (client.py 240-243,
\* 470-473): no lock is taken.
RecvRefresh ==
    /\ recv_pc = "refresh"
    /\ recv_targets # {}
    /\ \E t \in recv_targets :
           /\ SetClient(update_vpe_display(Client, t[1], t[2]))
           /\ recv_targets' = recv_targets \ {t}
    /\ UNCHANGED <<envVars, histVars, framerVars,
                   lock, recv_pc, recv_doc, recv_sections, doc_pre, reader_pc, snapshot>>

\* The refresh loop ends.
RecvRefreshEnd ==
    /\ recv_pc = "refresh"
    /\ recv_targets = {}
    /\ recv_pc' = "done"
    /\ UNCHANGED <<clientVars, envVars, histVars, framerVars,
                   lock, recv_doc, recv_sections, recv_targets, doc_pre, reader_pc, snapshot>>

\* process_xml_chunk returns to the receive loop.
RecvEnd ==
    /\ recv_pc = "done"
    /\ recv_pc' = "idle"
    /\ last_doc' = recv_doc
    /\ prev_full' = DocIsFull(last_doc)
    /\ ndocs' = ndocs + 1
    /\ writes' = <<>>
    /\ updates' = IF Triggers(FirstMarker(recv_doc), recv_doc) THEN 1 ELSE 0
    /\ UNCHANGED <<clientVars, envVars, markers_done, bursts, auth_seen, start_ok,
                   beatHist, stops, names_seen, threads, framerVars,
                   lock, recv_doc, recv_sections, recv_targets, doc_pre, reader_pc, snapshot, reg_pc, cbVars>>

\* ------------------------------------------------------- snapshot reader
\* What _collect_state_from_client copies (gui.py 1522-1531).
SnapshotOf(c) ==
    [current_on_air |-> c.current_on_air, source_names |-> c.source_names,
     aux_assignments |-> c.aux_assignments, all_outputs |-> c.all_outputs,
     logical_sources |-> c.logical_sources,
     logical_suites_ready |-> c.logical_suites_ready,
     engineering_sources |-> c.engineering_sources,
     engineering_sources_ready |-> c.engineering_sources_ready]

\* `with client.lock:` entered by the reader (gui.py 1520).
ReaderAcquire ==
    /\ running
    /\ reader_pc = "idle"
    /\ lock = "free"
    /\ lock' = "reader"
    /\ reader_pc' = "copy_on_air"
    /\ UNCHANGED <<clientVars, envVars, histVars, framerVars,
                   recv_pc, recv_doc, recv_sections, recv_targets, doc_pre, snapshot>>

\* deepcopy(client.current_on_air) (gui.py 1522).  The snapshot also notes
\* the document the receive worker is in and the client as that document
\* found it (the client as it is when the worker is between documents).
ReaderCopyOnAir ==
    /\ reader_pc = "copy_on_air"
    /\ snapshot' = [taken |-> FALSE,
                    current_on_air |-> current_on_air,
                    doc |-> IF recv_pc = "idle" THEN NoDoc ELSE recv_doc,
                    pre |-> IF recv_pc = "idle" THEN Client ELSE doc_pre]
    /\ reader_pc' = "copy_rest"
    /\ UNCHANGED <<clientVars, envVars, histVars, framerVars,
                   lock, recv_pc, recv_doc, recv_sections, recv_targets, doc_pre>>

\* The other copies (gui.py 1523-1529), and the lock released.
ReaderCopyRest ==
    /\ reader_pc = "copy_rest"
    /\ snapshot' = [taken |-> TRUE,
                    data |-> [SnapshotOf(Client) EXCEPT
                                  !.current_on_air = snapshot.current_on_air],
                    doc |-> snapshot.doc,
                    pre |-> snapshot.pre]
    /\ lock' = "free"
    /\ reader_pc' = "done"
    /\ UNCHANGED <<clientVars, envVars, histVars, framerVars,
                   recv_pc, recv_doc, recv_sections, recv_targets, doc_pre>>

\* The snapshot is rendered and dropped; the reader polls again later.
ReaderReturn ==
    /\ reader_pc = "done"
    /\ reader_pc' = "idle"
    /\ snapshot' = NoSnapshot
    /\ UNCHANGED <<clientVars, envVars, histVars, framerVars,
                   lock, recv_pc, recv_doc, recv_sections, recv_targets, doc_pre>>

\* Documents of the concurrent specification: names, layers, inputs.
LockDocs ==
    {LogicalDoc("1", "", <<[ID |-> "5", Name |-> "CAM1", Type |-> "Cam", vsources |-> <<>>]>>),
     LogicalDoc("1", "full", <<>>),
     MalformedDoc("<LogicalSourceMap"),
     VpeOutputDoc("1", <<VpeOutSection("ME1", "True", <<"BkgdA">>),
                         VpeOutSection("PGM", "False", <<"BkgdA">>)>>),
     VpeInputDoc("1", <<VpeInSection("ME1", "True", [x \in {"BkgdA"} |-> "5"]),
                        VpeInSection("", "True", EmptyDict),
                        VpeInSection("PGM", "True", EmptyDict)>>),
     VpeInputDoc("x", <<VpeInSection("ME1", "False", EmptyDict)>>),
     VpeInputDoc("1", <<VpeInSection("ME1", "False", EmptyDict)>>)}

NextLock ==
    \/ Start({TRUE}, {NoFailure})
    \/ RecvBegin(LockDocs)
    \/ RecvSections
    \/ RecvSkip
    \/ RecvAcquire
    \/ RecvSlots
    \/ RecvOnAir
    \/ RecvActiveLayers
    \/ RecvLogical
    \/ RecvRefresh
    \/ RecvRefreshEnd
    \/ RecvEnd
    \/ ReaderAcquire
    \/ ReaderCopyOnAir
    \/ ReaderCopyRest
    \/ ReaderReturn

SpecLock == Init /\ [][NextLock]_vars

\* The step-by-step handlers end where process_xml_chunk, taken whole, ends.
StepsMatchWhole ==
    recv_pc = "done" => Client = process_xml_chunk(IO(doc_pre, now, NoFailure), recv_doc).c

\* C9: every write to a State Store map happens while the receive worker
\* holds the State Store lock, and never while a snapshot reader is inside
\* its locked copy.
C9_WritesHoldTheLock ==
    [][StoreOf(Client)' # StoreOf(Client) =>
          /\ lock = "recv"
          /\ reader_pc \notin {"copy_on_air", "copy_rest"}]_vars

\* C10: a snapshot a reader copied under the lock reflects, for the document
\* the receive worker was handling, either none or all of that document's
\* changes.
C10_SnapshotIsConsistent ==
    snapshot.taken =>
        \/ snapshot.data = SnapshotOf(snapshot.pre)
        \/ snapshot.data =
                   SnapshotOf(process_xml_chunk(IO(snapshot.pre, now, NoFailure), snapshot.doc).c)

\* ------------------------------------------- the display combiner alone
\* The combiner applied to every ActiveLayerSet of up to MaxLayers layers.
\* The initial states are those of a receive worker that has left the
\* critical section of process_logical_source_map and is about to refresh
\* suite 0 / ME1 (client.py 469-473): the layers, the layer sources and the
\* names are stored, the display is not computed yet.
DisplayLayers == {"key1-fill", "key2-fill", "key3-fill", "key1-cut", "BkgdA", "BkgdB", "Foo"}

LayerSeqs == UNION {[1..n -> DisplayLayers] : n \in 0..MaxLayers}

DisplayLayerSources ==
    {EmptyDict,
     [x \in {"key1-fill", "BkgdA"} |-> IF x = "BkgdA" THEN "5" ELSE "7"],
     [x \in {"key1-fill", "key2-fill", "key3-fill", "BkgdA", "BkgdB"} |->
         CASE x = "key1-fill" -> "7" [] x = "key2-fill" -> "5" [] x = "key3-fill" -> "9"
           [] x = "BkgdA" -> "5" [] x = "BkgdB" -> ""]}

DisplayNames ==
    {EmptyDict, [x \in {"5"} |-> "CAM1"],
     [x \in {"5", "7"} |-> IF x = "5" THEN "CAM1" ELSE "CAM2"]}

DisplayRefreshDoc ==
    LogicalDoc("1", "", <<[ID |-> "5", Name |-> "CAM1", Type |-> "Cam", vsources |-> <<>>]>>)

InitDisplay ==
    /\ connected = TRUE
    /\ running = TRUE
    /\ sock = "open"
    /\ current_on_air = [s \in SuiteKeys |-> EmptyDict]
    /\ source_names \in DisplayNames
    /\ \E active \in LayerSeqs :
           on_air_layers = [s \in SuiteKeys |->
                               IF s = 0 THEN [v \in {"ME1"} |-> active] ELSE EmptyDict]
    /\ \E lsrc \in DisplayLayerSources :
           layer_sources = [s \in SuiteKeys |->
                               IF s = 0 THEN [v \in {"ME1"} |-> lsrc] ELSE EmptyDict]
    /\ aux_assignments = [s \in SuiteKeys |-> <<>>]
    /\ all_outputs = [s \in SuiteKeys |-> <<>>]
    /\ engineering_sources = <<>>
    /\ logical_sources = [s \in SuiteKeys |-> <<>>]
    /\ engineering_sources_ready = FALSE
    /\ logical_suites_ready = {}
    /\ initial_requests_sent = TRUE
    /\ data_complete = FALSE
    /\ last_heartbeat_response = 0
    /\ heartbeat_interval = HEARTBEAT_INTERVAL
    /\ response_timer = RESPONSE_TIMEOUT
    /\ response_timer_start = 0
    /\ InitEnv /\ InitHist /\ InitFramer
    /\ lock = "free"
    /\ recv_pc = "refresh"
    /\ recv_doc = DisplayRefreshDoc
    /\ recv_sections = <<>>
    /\ recv_targets = {<<0, "ME1">>}
    /\ doc_pre = NoPre
    /\ reader_pc = "idle"
    /\ snapshot = NoSnapshot

NextDisplay ==
    \/ RecvRefresh
    \/ RecvRefreshEnd

SpecDisplay == InitDisplay /\ [][NextDisplay]_vars

\* What the claim says of the layers: which are key fills, which are
\* backgrounds, and a key fill's number.
IsKeyFill(layer) == layer \in {"key1-fill", "key2-fill", "key3-fill"}

IsBackground(layer) == layer \in {"BkgdA", "BkgdB"}

KeyNumberOfLine(line) == IndexOf(DigitTexts, line[1][2])

CountIn(seq, x) == Cardinality({i \in DOMAIN seq : seq[i] = x})

\* C5: the combiner's result is one line per key-fill layer in ascending key
\* number, then the separator exactly when there is a key line and a
\* background line, then one line per background layer in ActiveLayerSet
\* order; "-cut" (and unknown) layers give no line.  In particular
\* [key1-fill, BkgdA] with sources {key1-fill: 7, BkgdA: 5} and names
\* {5: CAM1, 7: CAM2} gives "KEY 1: CAM2 (7)", separator, "BKGD A: CAM1 (5)".
C5_DisplayCombinerOrder ==
    (recv_pc = "done" /\ source_names # EmptyDict) =>
        LET active == on_air_layers[0]["ME1"]
            lsrc == layer_sources[0]["ME1"]
            result == DictGet(current_on_air[0], "ME1", <<>>)
            fills == SelectSeq(active, IsKeyFill)
            bkgds == SelectSeq(active, IsBackground)
            k == Len(fills)
            sep == IF k > 0 /\ bkgds # <<>> THEN 1 ELSE 0
            line(layer) == SourceText(source_names, lsrc, layer)
        IN  /\ Len(result) = k + sep + Len(bkgds)
            /\ \A i \in 1..k : result[i][1][1] = "KEY "
            /\ \A i \in 1..k :
                   CountIn(SubSeq(result, 1, k), result[i]) =
                       Cardinality({j \in 1..k : line(fills[j]) = result[i]})
            /\ \A i, j \in 1..k :
                   i < j => KeyNumberOfLine(result[i]) <= KeyNumberOfLine(result[j])
            /\ sep = 1 => result[k + 1] = SEPARATOR
            /\ \A j \in 1..Len(bkgds) : result[k + sep + j] = line(bkgds[j])
            /\ (/\ active = <<"key1-fill", "BkgdA">>
                /\ lsrc = [x \in {"key1-fill", "BkgdA"} |-> IF x = "BkgdA" THEN "5" ELSE "7"]
                /\ source_names = [x \in {"5", "7"} |-> IF x = "5" THEN "CAM1" ELSE "CAM2"])
               => result = << << <<"KEY ", "1">>, ": ", "CAM2", " (", "7", ")" >>,
                              <<"-------------">>,
                              << <<"BKGD A">>, ": ", "CAM1", " (", "5", ")" >> >>

\* C5 witness: the combiner has run on key fills that arrived out of order
\* around a background and a cut layer, and put the key lines first, sorted.
C5_Witness ==
    /\ recv_pc = "done"
    /\ on_air_layers[0]["ME1"] = <<"key2-fill", "BkgdA", "key1-fill">>
    /\ layer_sources[0]["ME1"] =
           [x \in {"key1-fill", "BkgdA"} |-> IF x = "BkgdA" THEN "5" ELSE "7"]
    /\ source_names = [x \in {"5", "7"} |-> IF x = "5" THEN "CAM1" ELSE "CAM2"]
    /\ current_on_air[0]["ME1"] =
           << << <<"KEY ", "1">>, ": ", "CAM2", " (", "7", ")" >>,
              << <<"KEY ", "2">>, ": No Source" >>,
              <<"-------------">>,
              << <<"BKGD A">>, ": ", "CAM1", " (", "5", ")" >> >>

\* ------------------------------------------------ the session and its timers
\* One wake-up of the heartbeat worker after its sleep (client.py 566-580):
\* it checks the response deadline, sends a heartbeat and sleeps again for
\* the interval of that moment.
HeartbeatWake(nets) ==
    /\ running
    /\ now >= hb_wake
    /\ \E net \in nets :
           LET r == heartbeat_wake(IO(Client, now, net))
               elapsed == DeadlineElapsed(Client, now)
               overdue == \E since \in unanswered_since :
                              now - since >= RESPONSE_TIMEOUT
           IN  /\ SetClient(r.c)
               /\ writes' = r.out
               /\ timeouts' = timeouts + (IF elapsed THEN 1 ELSE 0)
               /\ silent_wakes' = IF elapsed THEN 0
                                  ELSE IF overdue THEN silent_wakes + 1
                                  ELSE silent_wakes
               /\ unanswered_since' =
                      StillUnanswered(IF elapsed THEN Never ELSE unanswered_since, r.out, now)
    /\ hb_wake' = now + heartbeat_interval
    /\ UNCHANGED <<now, docHist, bursts, auth_seen, start_ok, stops, names_seen, noteVars,
                   framerVars, lockVars>>

\* stop() on the caller's thread (gui.py 1690), in whatever state the
\* session is.
Stop ==
    /\ stops < MaxStops
    /\ SetClient(stop(Client))
    /\ stops' = stops + 1
    /\ UNCHANGED <<envVars, docHist, wireHist, beatHist, names_seen, noteVars, framerVars, lockVars>>

\* A second of wall-clock time passes.
Tick ==
    /\ now < MaxTime
    /\ now' = now + 1
    /\ UNCHANGED <<clientVars, hb_wake, histVars, framerVars, lockVars>>

\* Documents of a session: the three session markers, a document without a
\* marker, an output tally, and an output tally that also carries the
\* session-complete marker (the tally branch is tested first).
SessionDocs ==
    {MarkerDoc("<SetComplete/>"), MarkerDoc("<Heartbeat>"), MarkerDoc("<Authentication>"),
     MarkerDoc("<Other>"),
     TallyDoc("full", <<TallyFirst>>),
     [TallyDoc("full", <<TallyFirst>>) EXCEPT !.markers = {"<OutputTally", "<SetComplete/>"}]}

NextSession ==
    \/ Start(BOOLEAN, {NoFailure})
    \/ Dispatch(SessionDocs, {NoFailure})
    \/ HeartbeatWake({NoFailure})
    \/ Stop
    \/ Tick

SpecSession == Init /\ [][NextSession]_vars

\* C6: the heartbeat interval is 1 s until the first session-complete marker
\* is processed and 5 s from then on; once 5 s, no step (a later marker, any
\* other document, a heartbeat timeout, stop) changes it.
C6_HeartbeatIntervalSwitchesOnce ==
    /\ [](heartbeat_interval = IF markers_done = 0 THEN HEARTBEAT_INTERVAL
                               ELSE HEARTBEAT_INTERVAL_LONG)
    /\ [][heartbeat_interval = HEARTBEAT_INTERVAL_LONG
             => heartbeat_interval' = HEARTBEAT_INTERVAL_LONG]_vars

\* C6 witness: two session-complete markers were processed, a heartbeat
\* deadline elapsed and the session was stopped; the interval is 5 s.
C6_Witness ==
    /\ markers_done >= 2
    /\ timeouts >= 1
    /\ ~running
    /\ sock = "closed"
    /\ heartbeat_interval = HEARTBEAT_INTERVAL_LONG

\* ------------------------------------------------------ the receive framer
\* A byte is a one-character string for an ASCII byte, "C3" for the lead byte
\* and "A9" for the continuation byte of the two-byte UTF-8 character U+00E9.
\* A decoded character is the ASCII character itself, or "U+E9".
ETP_CLOSE == <<"<", "/", "E", "T", "P", ">">>

IsAsciiByte(b) == b \notin {"C3", "A9"}

\* data.decode('utf-8', errors='ignore') of one read (client.py 549): a lead
\* byte without its continuation in the same read, and a continuation byte
\* without its lead, are dropped.
RECURSIVE Decode(_)
Decode(bytes) ==
    IF bytes = <<>> THEN <<>>
    ELSE IF IsAsciiByte(Head(bytes)) THEN <<Head(bytes)>> \o Decode(Tail(bytes))
    ELSE IF Head(bytes) = "C3" /\ Len(bytes) >= 2 /\ bytes[2] = "A9"
         THEN <<"U+E9">> \o Decode(Tail(Tail(bytes)))
         ELSE Decode(Tail(bytes))

\* buffer.find('</ETP>') (client.py 552), 1-based; 0 when absent.
FindClose(text) ==
    LET hits == {i \in 1..(Len(text) - 5) : SubSeq(text, i, i + 5) = ETP_CLOSE}
    IN  IF hits = {} THEN 0 ELSE CHOOSE i \in hits : \A j \in hits : i <= j

\* The splitting loop (client.py 551-555): the chunks cut from the buffer, in
\* order, and what stays in the buffer.
RECURSIVE SplitChunks(_)
SplitChunks(text) ==
    LET at == FindClose(text)
    IN  IF at = 0 THEN [chunks |-> <<>>, rest |-> text]
        ELSE LET more == SplitChunks(SubSeq(text, at + 6, Len(text)))
             IN  [chunks |-> <<SubSeq(text, 1, at + 5)>> \o more.chunks, rest |-> more.rest]

\* Mutant: the remainder is kept whatever its length.
RecvUnguarded ==
    /\ running
    /\ sock = "open"
    /\ rd_pos < Len(stream)
    /\ \E n \in 1..(Len(stream) - rd_pos) :
           LET data == SubSeq(stream, rd_pos + 1, rd_pos + n)
               split == SplitChunks(buffer \o Decode(data))
           IN  /\ rd_pos' = rd_pos + n
               /\ dispatched' = dispatched \o split.chunks
               /\ buffer' = split.rest
               /\ overflowed' = (overflowed \/ Len(split.rest) > MaxBuffer)
    /\ UNCHANGED <<stream, inbox, clientVars, envVars, histVars, lockVars>>

\* One iteration of receive_worker (client.py 544-558) on a read of n bytes:
\* decode the read, append, cut and dispatch the complete chunks, drop an
\* oversized remainder.  The chunks of the model carry no marker, so
\* process_xml_chunk leaves the client as it is (client.py 160-161).
Recv ==
    /\ running
    /\ sock = "open"
    /\ rd_pos < Len(stream)
    /\ \E n \in 1..(Len(stream) - rd_pos) :
           LET data == SubSeq(stream, rd_pos + 1, rd_pos + n)
               split == SplitChunks(buffer \o Decode(data))
           IN  /\ rd_pos' = rd_pos + n
               /\ dispatched' = dispatched \o split.chunks
               /\ buffer' = IF Len(split.rest) > MaxBuffer THEN <<>> ELSE split.rest
               /\ overflowed' = (overflowed \/ Len(split.rest) > MaxBuffer)
    /\ UNCHANGED <<stream, inbox, clientVars, envVars, histVars, lockVars>>

\* Payloads of the envelopes of the model, as bytes.
Payloads ==
    {<<>>, <<"a">>, <<"C3", "A9">>, <<"a", "C3", "A9">>, <<"a", "b", "c">>}

RECURSIVE StreamsOf(_)
StreamsOf(n) ==
    IF n = 0 THEN {<<>>}
    ELSE LET shorter == StreamsOf(n - 1)
         IN  shorter \cup {s \o p \o ETP_CLOSE : s \in shorter, p \in Payloads}

\* A client not started yet, and the byte stream its socket will deliver.
InitRecv ==
    /\ InitClient /\ InitEnv /\ InitHist /\ InitLock
    /\ stream \in StreamsOf(MaxEnvelopes) \ {<<>>}
    /\ rd_pos = 0
    /\ buffer = <<>>
    /\ dispatched = <<>>
    /\ overflowed = FALSE
    /\ inbox = <<>>

NextFramer ==
    \/ Start({TRUE}, {NoFailure})
    \/ Recv

SpecFramer == InitRecv /\ [][NextFramer]_vars

\* C7: as long as the overflow guard has not fired, the documents handed to
\* the dispatcher are exactly the complete envelopes of the bytes received
\* so far, each once, whole and in stream order, however the reads cut the
\* stream.
C7_EveryEnvelopeDispatchedWhole ==
    ~overflowed =>
        dispatched = SplitChunks(Decode(SubSeq(stream, 1, rd_pos))).chunks

\* The part of the claim every stream of the model satisfies: the number of
\* documents dispatched is the number of complete envelopes received.
FramerCountsMatch ==
    ~overflowed =>
        Len(dispatched) = Len(SplitChunks(Decode(SubSeq(stream, 1, rd_pos))).chunks)

\* The whole claim on streams of ASCII bytes.
FramerAsciiWhole ==
    (~overflowed /\ \A i \in DOMAIN stream : IsAsciiByte(stream[i])) =>
        dispatched = SplitChunks(Decode(SubSeq(stream, 1, rd_pos))).chunks

\* ------------------------------------------- documents that do not parse
\* One good document of each structured family, an active-layer document (so
\* that there is on-air text to lose), and for each structured family a
\* document ElementTree rejects.
StructuredMarkers == {"<OutputTally", "<LogicalSourceMap", "<EngineeringSourceMap"}

ParseDocs ==
    {TallyDoc("full", <<TallyFirst>>),
     EngDoc("full", <<[ID |-> "e1", Name |-> "CAM1", Type |-> "SDI", BNC |-> "1"]>>),
     LogicalDoc("1", "full", <<[ID |-> "5", Name |-> "CAM1", Type |-> "Cam", vsources |-> <<>>]>>),
     VpeOutputDoc("1", <<VpeOutSection("ME1", "True", <<"BkgdA">>)>>)}
    \cup {MalformedDoc(m) : m \in StructuredMarkers}

NextParse ==
    \/ Start(BOOLEAN, {NoFailure, AllFail})
    \/ Dispatch(ParseDocs, {NoFailure})

SpecParse == Init /\ [][NextParse]_vars

IsMalformedStructured(doc) ==
    /\ FirstMarker(doc) \in StructuredMarkers
    /\ ~doc.wellformed

\* C8: dispatching a malformed document of the OutputTally, LogicalSourceMap
\* or EngineeringSourceMap family leaves every State Store map and readiness
\* flag as it was before the document arrived.
C8_MalformedDocumentChangesNothing ==
    [][(ndocs' = ndocs + 1 /\ IsMalformedStructured(last_doc'))
           => StoreOf(Client)' = StoreOf(Client)]_vars

\* C8 witness: a malformed LogicalSourceMap was the last document dispatched,
\* after documents that stored source names and on-air text, and both are
\* still there.
C8_Witness ==
    /\ ndocs = 3
    /\ last_doc = MalformedDoc("<LogicalSourceMap")
    /\ source_names = [x \in {"5"} |-> "CAM1"]
    /\ logical_suites_ready = {0}
    /\ "ME1" \in DOMAIN current_on_air[0]

\* ----------------------------------------- on-air text before any name
\* A display line made from a source id: "<SLOT>: <name> (<id>)" or
\* "<SLOT>: Source <id>".
CarriesSourceId(line) == Len(line) >= 2 /\ line[2] \in {": ", ": Source "}

\* C11: as long as the source-name index has never held an entry, OnAirState
\* holds no display line computed from a source id.
C11_NoComputedTextBeforeNames ==
    ~names_seen =>
        \A s \in SuiteKeys : \A v \in DOMAIN current_on_air[s] :
            \A i \in DOMAIN current_on_air[s][v] :
                ~CarriesSourceId(current_on_air[s][v][i])

\* What update_vpe_display alone keeps to: it writes nothing while the
\* source-name index is empty (client.py 350-351).
CombinerWaitsForNames ==
    [][(source_names' = EmptyDict /\ current_on_air' # current_on_air)
          => IsVpeInputDoc(last_doc')]_vars

\* ----------------------------------------------- logical source maps alone
\* LogSrc elements and documents of two suites: full ("full", "Complete")
\* and incremental maps, entries with and without a name.
LogCam1 == [ID |-> "5", Name |-> "CAM1", Type |-> "Cam", vsources |-> <<>>]

LogUnnamed == [ID |-> "5", Name |-> "", Type |-> "Cam", vsources |-> <<>>]

LogCam2 == [ID |-> "7", Name |-> "CAM2", Type |-> "Cam", vsources |-> <<>>]

LogSeqs == {<<>>, <<LogCam1>>, <<LogUnnamed>>, <<LogCam2>>, <<LogCam1, LogCam2>>}

LogicalMapDocs ==
    {LogicalDoc("1", t, srcs) : t \in {"full", "Update"}, srcs \in LogSeqs}
    \cup {LogicalDoc("1", "Complete", <<LogCam2>>)}
    \cup {LogicalDoc("2", t, srcs) : t \in {"full", "Update"}, srcs \in {<<>>, <<LogCam1>>}}

NextLogical ==
    \/ Start({TRUE}, {NoFailure})
    \/ Dispatch(LogicalMapDocs, {NoFailure})

SpecLogical == Init /\ [][NextLogical]_vars

IsLogicalDoc(doc) == FirstMarker(doc) = "<LogicalSourceMap"

LogIds(doc) == {doc.sources[i].ID : i \in DOMAIN doc.sources}

\* The value the last LogSrc element with the id gives.
LogLast(doc, id) ==
    LET es == SelectSeq(doc.sources, LAMBDA e : e.ID = id)
        e == es[Len(es)]
    IN  [id |-> e.ID, name |-> e.Name, type |-> e.Type, vsources |-> e.vsources]

\* C12: a "full"/"complete" LogicalSourceMap for suite S leaves exactly the
\* document's entries in LogicalSourceCatalog[S], and no id that was in the
\* old catalog of S and is not in the new one keeps an entry in the
\* source-name index; an incremental one leaves every id it does not name
\* with its catalog entry and its cached name.
C12_LogicalFullPurgesIncrementalKeeps ==
    [][(ndocs' = ndocs + 1 /\ IsLogicalDoc(last_doc') /\ last_doc'.wellformed) =>
          LET doc == last_doc'
              S == ParseInt(doc.suite) - 1
              old == logical_sources[S]
              new == logical_sources'[S]
          IN  IF doc.type \in {"full", "Complete"}
              THEN /\ OdKeys(new) = LogIds(doc)
                   /\ \A id \in LogIds(doc) : ItemOf(new, id) = LogLast(doc, id)
                   /\ \A id \in OdKeys(old) \ LogIds(doc) : id \notin DOMAIN source_names'
              ELSE /\ \A id \in OdKeys(old) \ LogIds(doc) :
                          ItemOf(new, id) = ItemOf(old, id)
                   /\ \A id \in (DOMAIN source_names) \ LogIds(doc) :
                          /\ id \in DOMAIN source_names'
                          /\ source_names'[id] = source_names[id]
      ]_vars

\* C12 witness: a full map for suite 1 that names only id 7 was processed
\* after id 5 had been stored with its name for suites 1 and 2; suite 1 holds
\* exactly id 7, and id 5, still in the catalog of suite 2, has no cached name.
C12_Witness ==
    /\ ndocs = 3
    /\ last_doc = LogicalDoc("1", "full", <<LogCam2>>)
    /\ OdKeys(logical_sources[0]) = {"7"}
    /\ OdKeys(logical_sources[1]) = {"5"}
    /\ ItemOf(logical_sources[1], "5").name = "CAM1"
    /\ source_names = [x \in {"7"} |-> "CAM2"]

\* ------------------------------------------------------------ stop() alone
\* stop() called at any moment of a session: before start(), after a
\* connect that failed, after a start() whose writes failed, between
\* documents, and again after stop().
StopDocs ==
    {MarkerDoc("<SetComplete/>"), MarkerDoc("<Authentication>"),
     TallyDoc("full", <<TallyFirst>>)}

NextStop ==
    \/ Start(BOOLEAN, {NoFailure, AllFail})
    \/ Dispatch(StopDocs, {NoFailure})
    \/ Stop

SpecStop == Init /\ [][NextStop]_vars

\* C13: after stop() returns, in whatever session state it was called,
\* running is false, connected is false and the socket is closed (or was
\* never created).
C13_StopDisconnects ==
    [][stops' = stops + 1 =>
          /\ ~running'
          /\ ~connected'
          /\ sock' \in {"closed", "none"}]_vars

\* What stop() does reach: running false and the socket closed.
StopClosesSocket ==
    [][stops' = stops + 1 => (~running' /\ sock' \in {"closed", "none"})]_vars

\* C14: stop() is idempotent: in the state any call of stop() leaves, in
\* whatever session state it was made, another call of stop() changes
\* nothing; a second call in a row leaves the session as the first left it.
C14_StopIsIdempotent ==
    [][stops' = stops + 1 =>
          /\ stop(Client)' = Client'
          /\ (Client = stop(Client) => Client' = Client)]_vars

\* C14 witness: stop() was called twice on a session that start() had
\* connected; the socket is closed and the worker flag is down.
C14_Witness ==
    /\ stops = 2
    /\ start_ok = "true"
    /\ sock = "closed"
    /\ ~running
    /\ ~initial_requests_sent

\* ------------------------------------------------------------ registration
\* start() and the authentication response against a network that refuses
\* some writes: none, all, the authentication request, one request of the
\* first burst, one request of each burst, the heartbeat after the burst.
RegNets == {NoFailure, AllFail, {1}, {2}, {4}, {2, 3}, {4, 6}, {9}}

RegDocs ==
    {MarkerDoc("<Authentication>"), MarkerDoc("<Heartbeat>"), MarkerDoc("<SetComplete/>")}

NextReg ==
    \/ Start(BOOLEAN, RegNets)
    \/ Dispatch(RegDocs, {NoFailure, AllFail, {1}, {3}})

SpecReg == Init /\ [][NextReg]_vars

RegistrationNames ==
    {"TallySubscription-Request", "Configuration-Request",
     "EngineeringSourceMap-Request", "LogicalSourceMap-Request",
     "VPEInputMap-Request", "VPEOutputMap-Request", "OutputTallyMap-Request"}

IsRegistration(attempt) == attempt.msg \in RegistrationNames

\* Place of a registration request in the order the claim fixes.
RegistrationPlace(msg) ==
    CASE msg = "TallySubscription-Request"    -> 1
      [] msg = "Configuration-Request"        -> 2
      [] msg = "EngineeringSourceMap-Request" -> 3
      [] msg = "LogicalSourceMap-Request"     -> 4
      [] msg = "VPEInputMap-Request"          -> 5
      [] msg = "VPEOutputMap-Request"         -> 6
      [] msg = "OutputTallyMap-Request"       -> 7

\* C15: no registration request is written to the socket before an
\* authentication-response document has been received and processed.
C15_RegistrationWaitsForAuthentication ==
    (\E i \in DOMAIN writes : IsRegistration(writes[i])) => auth_seen

\* C16: the registration requests an operation writes form bursts in the
\* fixed order: the first is the subscription request; after a request that
\* was sent comes the next of the order (or, after the seventh, nothing of
\* that burst); after a request that failed to send comes nothing of that
\* burst, a later request being the first of a new burst.
C16_BurstInFixedOrder ==
    LET regs == SelectSeq(writes, IsRegistration)
        place(i) == RegistrationPlace(regs[i].msg)
    IN  \A i \in DOMAIN regs :
            IF i = 1 THEN place(i) = 1
            ELSE IF regs[i - 1].ok /\ place(i - 1) < 7
                 THEN place(i) = place(i - 1) + 1
                 ELSE place(i) = 1

\* C16 witness: start() has written a burst that stopped at its third
\* request, which failed to send, and then a second burst of all seven.
C16_Witness ==
    /\ start_ok = "true"
    /\ Len(writes) = 12
    /\ writes[3] = [msg |-> "Configuration-Request", ok |-> TRUE]
    /\ writes[4] = [msg |-> "EngineeringSourceMap-Request", ok |-> FALSE]
    /\ writes[5] = [msg |-> "TallySubscription-Request", ok |-> TRUE]
    /\ writes[11] = [msg |-> "OutputTallyMap-Request", ok |-> TRUE]
    /\ writes[12] = [msg |-> "Heartbeat-Request", ok |-> TRUE]

\* Whether the write attempts hold a burst of which all seven were sent.
BurstSent(out) ==
    \E i \in DOMAIN out : out[i] = [msg |-> "OutputTallyMap-Request", ok |-> TRUE]

\* C17: start() makes at most two burst attempts and returns true exactly
\* when one of them sent all seven requests; no thread makes a third
\* attempt for that start().
C17_BurstRetriedOnce ==
    /\ [](bursts <= 2)
    /\ [][(start_ok = "none" /\ start_ok' # "none") =>
             /\ bursts' <= 2
             /\ (start_ok' = "true") = BurstSent(writes')]_vars

\* What start() itself keeps to: at most two attempts, the second only
\* after a failed first, and true exactly when a whole burst was sent.
StartRetriesOnce ==
    [][(start_ok = "none" /\ start_ok' # "none") =>
          /\ bursts' <= 2
          /\ (bursts' = 2 => \E i \in DOMAIN writes' :
                                 IsRegistration(writes'[i]) /\ ~writes'[i].ok)
          /\ (start_ok' = "true") = BurstSent(writes')]_vars


\* ------------------------------------------------- the heartbeat supervisor
\* A session whose peer answers heartbeats or stays silent: start() on a
\* reachable peer, session-complete markers and heartbeat responses, the
\* worker's wake-ups with writes that go through or are refused, and time.
BeatDocs == {MarkerDoc("<SetComplete/>"), MarkerDoc("<Heartbeat>")}

NextBeat ==
    \/ Start({TRUE}, {NoFailure})
    \/ Dispatch(BeatDocs, {NoFailure})
    \/ HeartbeatWake({NoFailure, AllFail})
    \/ Tick

SpecBeat == Init /\ [][NextBeat]_vars

\* C18: once a heartbeat request has gone 4 s without a heartbeat response,
\* the worker reports the protocol timeout at its next wake-up or at the one
\* after it: never do two wake-ups pass over such a request without a report,
\* whether the interval is 1 s or 5 s.
C18_UnansweredHeartbeatTimesOut == silent_wakes <= 1

\* In a wake-up that reports no timeout while a deadline is armed, less than
\* the 4 s have passed since the last heartbeat request that was sent: each
\* request sent moves the start of the deadline.
DeadlineFollowsLastRequest ==
    [][(running /\ hb_wake' # hb_wake /\ response_timer > 0 /\ timeouts' = timeouts)
          => now - response_timer_start < RESPONSE_TIMEOUT]_vars

\* C19: a wake-up of the heartbeat worker either reports the timeout and
\* clears the deadline, writing nothing, when an armed deadline has elapsed,
\* or else writes one heartbeat request and, when it was sent, arms a 4 s
\* deadline from that moment.
C19_WakeReportsOrSends ==
    [][(running /\ hb_wake' # hb_wake) =>
          IF DeadlineElapsed(Client, now)
          THEN /\ timeouts' = timeouts + 1
               /\ response_timer' = 0
               /\ writes' = <<>>
          ELSE /\ timeouts' = timeouts
               /\ Len(writes') = 1
               /\ writes'[1].msg = "Heartbeat-Request"
               /\ (writes'[1].ok => /\ response_timer' = RESPONSE_TIMEOUT
                                    /\ response_timer_start' = now)]_vars

\* What every wake-up does: one heartbeat request is written whether or not
\* a timeout was reported, and a report is made exactly for an elapsed
\* deadline.
WakeAlwaysSends ==
    [][(running /\ hb_wake' # hb_wake) =>
          /\ Len(writes') = 1
          /\ writes'[1].msg = "Heartbeat-Request"
          /\ timeouts' = timeouts + (IF DeadlineElapsed(Client, now) THEN 1 ELSE 0)
          /\ (writes'[1].ok => /\ response_timer' = RESPONSE_TIMEOUT
                               /\ response_timer_start' = now)]_vars


\* ------------------------------------------- the dispatcher's choice of handler
\* One document of each family, two documents no branch recognizes (one of
\* them a VPE output map, whose marker is not among those tested), and
\* documents whose text holds the markers of two families together with the
\* elements both handlers would read; the session was started with its
\* registration requests sent, or with both bursts refused at the first one.
DispatchTally == TallyDoc("full", <<TallyFirst>>)

DispatchEng == EngDoc("full", <<[ID |-> "e1", Name |-> "CAM1", Type |-> "SDI", BNC |-> "1"]>>)

DispatchLogical ==
    LogicalDoc("1", "full", <<[ID |-> "5", Name |-> "CAM1", Type |-> "Cam", vsources |-> <<>>]>>)

DispatchVpeIn == VpeInputDoc("1", <<VpeInSection("ME1", "True", [x \in {"BkgdA"} |-> "5"])>>)

DispatchVpeOut == VpeOutputDoc("1", <<VpeOutSection("ME1", "True", <<"BkgdA">>)>>)

\* A VPE section with input slots and a program-bus block.
DispatchVpeBoth ==
    [markers |-> {"<VPEInputMap", "<VPEOutputContribution"}, suite |-> "1",
     sections |-> <<[name |-> "ME1", acquired |-> "True",
                     slots |-> [x \in {"BkgdA"} |-> "5"],
                     has_pgm |-> TRUE, pgm |-> <<"BkgdA">>]>>]

\* An output tally inside an engineering source map document.
DispatchEngTally ==
    [markers |-> {"<EngineeringSourceMap", "<OutputTally"}, wellformed |-> TRUE,
     has_elem |-> TRUE, type |-> "full",
     sources |-> DispatchEng.sources, outputs |-> DispatchTally.outputs]

WithMarker(doc, marker) == [doc EXCEPT !.markers = @ \cup {marker}]

DispatchDocs ==
    {DispatchVpeIn, [DispatchVpeIn EXCEPT !.markers = {"<VPEInputContribution"}],
     DispatchEng, DispatchLogical, DispatchTally, DispatchVpeOut,
     MarkerDoc("<SetComplete/>"), MarkerDoc("<Heartbeat>"), MarkerDoc("<Authentication>"),
     MarkerDoc("<Other>"), [DispatchVpeOut EXCEPT !.markers = {"<VPEOutputMap"}],
     DispatchVpeBoth, DispatchEngTally,
     WithMarker(DispatchVpeIn, "<SetComplete/>"),
     WithMarker(DispatchEng, "<Heartbeat>"),
     WithMarker(DispatchLogical, "<Authentication>"),
     WithMarker(DispatchTally, "<SetComplete/>"),
     WithMarker(DispatchVpeOut, "<Heartbeat>"),
     [markers |-> {"<SetComplete/>", "<Heartbeat>"}],
     [markers |-> {"<SetComplete/>", "<Authentication>"}],
     [markers |-> {"<Heartbeat>", "<Authentication>"}]}

NextDispatch ==
    \/ Start({TRUE}, {NoFailure, {2, 3}})
    \/ Dispatch(DispatchDocs, {NoFailure})

SpecDispatch == Init /\ [][NextDispatch]_vars

\* The place of each family in the priority order of the dispatcher.
FamilyPriority ==
    [m \in {"<VPEInputContribution", "<VPEInputMap", "<EngineeringSourceMap",
            "<LogicalSourceMap", "<OutputTally", "<VPEOutputContribution",
            "<SetComplete/>", "<Heartbeat>", "<Authentication>"} |->
        CASE m = "<VPEInputContribution"  -> 1
          [] m = "<VPEInputMap"           -> 2
          [] m = "<EngineeringSourceMap"  -> 3
          [] m = "<LogicalSourceMap"      -> 4
          [] m = "<OutputTally"           -> 5
          [] m = "<VPEOutputContribution" -> 6
          [] m = "<SetComplete/>"         -> 7
          [] m = "<Heartbeat>"            -> 8
          [] m = "<Authentication>"       -> 9]

\* The families whose markers a document carries.
FamiliesOf(doc) == doc.markers \cap DOMAIN FamilyPriority

\* The handler of one family, alone, on the state before the document.
HandlerAlone(m, io, doc) ==
    CASE m = "<VPEInputContribution"  -> [io EXCEPT !.c = process_vpe_input_simple(io.c, doc)]
      [] m = "<VPEInputMap"           -> [io EXCEPT !.c = process_vpe_input_simple(io.c, doc)]
      [] m = "<EngineeringSourceMap"  -> [io EXCEPT !.c = process_engineering_source_map(io.c, doc)]
      [] m = "<LogicalSourceMap"      -> [io EXCEPT !.c = process_logical_source_map(io.c, doc)]
      [] m = "<OutputTally"           -> [io EXCEPT !.c = process_output_tally(io.c, doc)]
      [] m = "<VPEOutputContribution" -> [io EXCEPT !.c = process_vpe_output_layers(io.c, doc)]
      [] m = "<SetComplete/>"         -> [io EXCEPT !.c = process_set_complete(io.c)]
      [] m = "<Heartbeat>"            -> [io EXCEPT !.c = process_heartbeat(io.c, io.t)]
      [] m = "<Authentication>"       -> process_authentication(io)

\* C20: a dispatched document that carries no family marker changes nothing
\* and writes nothing; one that carries markers leaves exactly the state and
\* the writes that the handler of its highest-priority family produces alone,
\* in the order VPE input contribution, VPE input map, engineering source
\* map, logical source map, output tally, VPE output contribution,
\* session-complete marker, heartbeat response, authentication response.
C20_DispatchFirstMatchWins ==
    [][ndocs' = ndocs + 1 =>
          LET doc == last_doc'
              io == IO(Client, now, NoFailure)
          IN  IF FamiliesOf(doc) = {}
              THEN Client' = Client /\ writes' = <<>>
              ELSE \E m \in FamiliesOf(doc) :
                      /\ \A o \in FamiliesOf(doc) : FamilyPriority[m] <= FamilyPriority[o]
                      /\ Client' = HandlerAlone(m, io, doc).c
                      /\ writes' = HandlerAlone(m, io, doc).out
      ]_vars

\* C20 witness: in a session whose start() could not send its registration
\* requests, three two-family documents were dispatched: an engineering
\* source map with an output tally, a session-complete marker with a
\* heartbeat response, and a heartbeat response with an authentication
\* response. The source is in the catalog and the tally is not, the session
\* is complete, and the last document cleared the deadline without the
\* registration burst the authentication branch would have sent.
C20_Witness ==
    /\ ndocs = 3
    /\ last_doc.markers = {"<Heartbeat>", "<Authentication>"}
    /\ start_ok = "false"
    /\ bursts = 2
    /\ ~initial_requests_sent
    /\ writes = <<>>
    /\ response_timer = 0
    /\ data_complete
    /\ Len(engineering_sources) = 1
    /\ all_outputs[0] = <<>>


\* ------------------------------------------------------ the update notifier
\* C21: whenever the dispatch of a document changes a map of the State Store
\* (on-air text, layer sources, active layers, source names, the output, aux,
\* engineering and logical catalogs and their ready marks), the handler calls
\* trigger_gui_update, which invokes every registered callback, before it
\* returns to the receive loop.
C21_MutationNotifiesCallbacks ==
    [][(ndocs' = ndocs + 1 /\ StoreOf(Client') # StoreOf(Client)) => updates' >= 1]_vars

\* Every family but the logical source map notifies after a change: a
\* dispatch that changes the store without a notification is the dispatch of
\* a logical source map.
OnlyLogicalMapIsSilent ==
    [][(ndocs' = ndocs + 1 /\ StoreOf(Client') # StoreOf(Client) /\ updates' = 0)
          => FirstMarker(last_doc') = "<LogicalSourceMap"]_vars


\* --------------------------------------------------- suites outside 1..4
\* Documents of the four handlers that read a suite, with the Suite
\* attribute 0, 1, 4 and 5.
SuiteTexts == {"0", "1", "4", "5"}

SuiteDocs ==
    {VpeInputDoc(su, <<VpeInSection("ME1", "True", [x \in {"BkgdA"} |-> "5"])>>) :
        su \in SuiteTexts}
    \cup {VpeOutputDoc(su, <<VpeOutSection("ME1", "True", <<"BkgdA">>)>>) : su \in SuiteTexts}
    \cup {TallyDoc("full", <<[Name |-> "Aux 1", Suite |-> su, OutNum |-> "2", LogSrc |-> "7"]>>) :
             su \in SuiteTexts}
    \cup {LogicalDoc(su, "full", <<[ID |-> "5", Name |-> "CAM1", Type |-> "Cam",
                                    vsources |-> <<>>]>>) : su \in SuiteTexts}

NextSuite ==
    \/ Start({TRUE}, {NoFailure})
    \/ Dispatch(SuiteDocs, {NoFailure})

SpecSuite == Init /\ [][NextSuite]_vars

\* The maps of the State Store hold nothing under the suite index s.
SuiteUnused(s) ==
    /\ current_on_air[s] = EmptyDict
    /\ layer_sources[s] = EmptyDict
    /\ on_air_layers[s] = EmptyDict
    /\ all_outputs[s] = <<>>
    /\ aux_assignments[s] = <<>>
    /\ logical_sources[s] = <<>>
    /\ s \notin logical_suites_ready

\* C22: no map of the State Store holds anything under a suite index outside
\* 0..3: what a document with a Suite attribute outside 1..4 carries is
\* stored under index 0.
C22_SuiteIndexInRange ==
    \A s \in SuiteKeys \ (0..(NumSuites - 1)) : SuiteUnused(s)

\* The logical source map handler alone clamps, and only from below: it
\* stores nothing under a negative index.
LogicalClampsBelow ==
    \A s \in SuiteKeys : s < 0 => logical_sources[s] = <<>> /\ s \notin logical_suites_ready


\* ------------------------------------------------ the aux catalog as an index
\* C23: for every suite, the aux catalog holds exactly the output numbers of
\* the output catalog whose name contains "aux", each with the entry the
\* output catalog holds for it.
C23_AuxIsAuxNamedOutputs ==
    \A s \in SuiteKeys :
        /\ OdKeys(aux_assignments[s]) =
               {n \in OdKeys(all_outputs[s]) : IsAuxName(OdGet(all_outputs[s], n).name)}
        /\ \A n \in OdKeys(aux_assignments[s]) \cap OdKeys(all_outputs[s]) :
               OdGet(aux_assignments[s], n) = OdGet(all_outputs[s], n)

\* What does hold: the name of every aux entry contains "aux", and every
\* aux-named entry of the output catalog is in the aux catalog as it is in
\* the output catalog. Entries of the aux catalog that the output catalog
\* has dropped or renamed stay.
AuxHoldsAuxNamedOutputs ==
    \A s \in SuiteKeys :
        /\ \A n \in OdKeys(aux_assignments[s]) : IsAuxName(OdGet(aux_assignments[s], n).name)
        /\ \A n \in OdKeys(all_outputs[s]) :
               IsAuxName(OdGet(all_outputs[s], n).name)
                   => /\ n \in OdKeys(aux_assignments[s])
                      /\ OdGet(aux_assignments[s], n) = OdGet(all_outputs[s], n)


\* ------------------------------------------------------- a failed connect
NoThreads == [recv |-> "none", hb |-> "none"]

\* C24: a start() whose connect fails returns false and leaves connected and
\* running false, starts neither worker and writes nothing; from then on the
\* session stays that way, nothing is written, and the socket is never
\* connected.
C24_FailedConnectReturnsFalse ==
    /\ [][(start_ok = "none" /\ start_ok' # "none" /\ sock' = "unconnected")
             => /\ start_ok' = "false"
                /\ ~connected' /\ ~running'
                /\ threads' = NoThreads
                /\ writes' = <<>> /\ bursts' = 0]_vars
    /\ [][sock = "unconnected"
             => /\ sock' \in {"unconnected", "closed"}
                /\ ~connected' /\ ~running'
                /\ threads' = NoThreads
                /\ writes' = <<>> /\ bursts' = 0 /\ ndocs' = ndocs]_vars

\* C24 witness: start() has returned false for a connect that failed.
C24_Witness ==
    /\ sock = "unconnected"
    /\ start_ok = "false"
    /\ ~connected /\ ~running
    /\ threads = NoThreads
    /\ writes = <<>>


\* ------------------------------------------------ the workers' loops ending
\* Mutant: the worker goes on to the deadline check and the heartbeat without
\* looking at the running flag after its sleep.
heartbeat_worker_unchecked(io) == [heartbeat_wake(io) EXCEPT !.ok = TRUE]

\* One turn of the loop of heartbeat_worker after the sleep (client.py
\* 566-580): with running false nothing is done and the loop condition ends
\* the thread (ok false), otherwise the wake-up is performed.
heartbeat_worker(io) ==
    IF io.c.running THEN [heartbeat_wake(io) EXCEPT !.ok = TRUE]
    ELSE [io EXCEPT !.ok = FALSE]

\* The heartbeat worker wakes up after stop().
HeartbeatReturns ==
    /\ threads.hb = "alive"
    /\ ~running
    /\ now >= hb_wake
    /\ LET r == heartbeat_worker(IO(Client, now, NoFailure))
       IN  /\ SetClient(r.c)
           /\ writes' = r.out
           /\ threads' = [threads EXCEPT !.hb = IF r.ok THEN "alive" ELSE "exited"]
    /\ UNCHANGED <<envVars, docHist, bursts, auth_seen, start_ok, beatHist, stops,
                   names_seen, updates, framerVars, lockVars, reg_pc, cbVars>>

\* The receive worker finds running false at the head of its loop (client.py
\* 544), after a read that returned, timed out or failed on the closed socket.
ReceiveReturns ==
    /\ threads.recv = "alive"
    /\ ~running
    /\ threads' = [threads EXCEPT !.recv = "exited"]
    /\ UNCHANGED <<clientVars, envVars, docHist, wireHist, beatHist, stops, names_seen,
                   updates, framerVars, lockVars, reg_pc, cbVars>>

\* The receive worker leaves its loop while the session runs: the peer closed
\* the stream (client.py 546-548) or the read raised an error other than a
\* timeout (561-563). No field of the client is written.
ReceiveBreaks ==
    /\ threads.recv = "alive"
    /\ running
    /\ threads' = [threads EXCEPT !.recv = "exited"]
    /\ UNCHANGED <<clientVars, envVars, docHist, wireHist, beatHist, stops, names_seen,
                   updates, framerVars, lockVars, reg_pc, cbVars>>

\* A session with everything that can go wrong short of stop(): a connect
\* that fails, writes the network refuses in start(), in the authentication
\* branch and in the heartbeat worker, heartbeat deadlines that elapse, and a
\* receive worker that ends on an error or at the end of the stream.
FailDocs == {MarkerDoc("<Heartbeat>"), MarkerDoc("<Authentication>")}

NextFail ==
    \/ Start(BOOLEAN, {NoFailure, {2, 3}})
    \/ (threads.recv = "alive" /\ Dispatch(FailDocs, {NoFailure, AllFail}))
    \/ (threads.hb = "alive" /\ HeartbeatWake({NoFailure, AllFail}))
    \/ ReceiveBreaks
    \/ ReceiveReturns
    \/ HeartbeatReturns
    \/ Stop
    \/ Tick

SpecFail == Init /\ [][NextFail]_vars

\* C25: only start() and stop() change the connected flag, the running flag
\* or the socket: the end of the receive worker on an error or at the end of
\* the stream, a heartbeat timeout, a refused write and every other step
\* leave them as they are, and nothing opens a second connection.
C25_OnlyStopDisconnects ==
    [][(connected' # connected \/ running' # running \/ sock' # sock)
          => \/ stops' = stops + 1
             \/ (start_ok = "none" /\ start_ok' # "none" /\ sock = "none")]_vars

\* C25 witness: the receive worker has ended while the session ran, a
\* heartbeat timeout was reported and the last heartbeat was refused; the
\* session still reads connected and running on an open socket, and stop()
\* was never called.
C25_Witness ==
    /\ threads.recv = "exited"
    /\ timeouts >= 1
    /\ writes = <<[msg |-> "Heartbeat-Request", ok |-> FALSE]>>
    /\ connected /\ running /\ sock = "open"
    /\ stops = 0


\* ------------------------------------------------------------ cancellation
\* Time passes while a stopped session's heartbeat worker still sleeps.
SleepOn ==
    /\ threads.hb = "alive"
    /\ ~running
    /\ now < hb_wake
    /\ now' = now + 1
    /\ UNCHANGED <<clientVars, hb_wake, histVars, framerVars, lockVars>>

\* A session that is started, beats, answers heartbeats and is stopped, with
\* the workers' loops ending.
NextCancel ==
    \/ Start(BOOLEAN, {NoFailure})
    \/ (threads.recv = "alive" /\ Dispatch({MarkerDoc("<SetComplete/>")}, {NoFailure}))
    \/ (threads.hb = "alive" /\ HeartbeatWake({NoFailure}))
    \/ ReceiveReturns
    \/ HeartbeatReturns
    \/ Stop
    \/ Tick
    \/ SleepOn

\* The workers are scheduled and the clock runs.
SpecCancel ==
    /\ Init /\ [][NextCancel]_vars
    /\ WF_vars(ReceiveReturns) /\ WF_vars(HeartbeatReturns) /\ WF_vars(SleepOn)

RefreshSuites == {"1", "5"}

RefreshDocs ==
    {LogicalDoc("1", t, srcs) :
        t \in {"full", ""},
        srcs \in {<<>>, <<LogCam1>>, <<LogCam2>>}}
    \cup {EngDoc("full", <<[ID |-> "e1", Name |-> "CAM1", Type |-> "SDI", BNC |-> "1"]>>)}
    \cup {VpeInputDoc(su, <<VpeInSection("ME1", a, sl)>>) :
             su \in RefreshSuites, a \in {"True", "False"},
             sl \in {[x \in {"BkgdA"} |-> "5"], [x \in {"key1-fill"} |-> "5"]}}
    \cup {VpeOutputDoc(su, <<VpeOutSection("ME1", "True", pgm)>>) :
             su \in RefreshSuites, pgm \in {<<"BkgdA">>, <<"key1-fill", "BkgdA">>}}

NextRefresh ==
    \/ Start({TRUE}, {NoFailure})
    \/ Dispatch(RefreshDocs, {NoFailure})

SpecRefresh == Init /\ [][NextRefresh]_vars

\* The on-air text of VPE v of suite index s is what the display combiner
\* makes of the active layers, the layer sources and the source names as
\* they are now, whenever it makes anything: there are names and lines.
DisplayIsCurrent(s, v) ==
    LET active == DictGet(on_air_layers[s], v, <<>>)
        lsrc == DictGet(layer_sources[s], v, EmptyDict)
        lines == DisplayLines(source_names, lsrc, active)
    IN  (active # <<>> /\ source_names # EmptyDict /\ lines # <<>>)
            => DictGet(current_on_air[s], v, <<>>) = lines

IsSourceMapDoc(doc) ==
    FirstMarker(doc) \in {"<LogicalSourceMap", "<EngineeringSourceMap"}

\* C26: when the last document processed is a logical or an engineering
\* source map, the on-air text of every VPE with active layers, in every
\* suite the store holds, is what the display combiner produces from the
\* current active layers, layer sources and source names.
C26_SourceMapsRefreshDisplays ==
    IsSourceMapDoc(last_doc) =>
        \A s \in SuiteKeys : \A v \in DOMAIN on_air_layers[s] : DisplayIsCurrent(s, v)

\* The same for the suite indices 0..3 that the refresh loops visit.
SourceMapsRefreshSuites ==
    IsSourceMapDoc(last_doc) =>
        \A s \in 0..(NumSuites - 1) : \A v \in DOMAIN on_air_layers[s] : DisplayIsCurrent(s, v)

\* For those suites the on-air text is current after every document.
DisplaysCurrentInRange ==
    \A s \in 0..(NumSuites - 1) : \A v \in DOMAIN on_air_layers[s] : DisplayIsCurrent(s, v)


\* ------------------------------------ the two forms of the VPE-output family
\* A document whose only family markers are those of the VPE-output family.
IsVpeOutputText(doc) ==
    /\ doc.markers \cap {"<VPEOutputMap", "<VPEOutputContribution"} # {}
    /\ doc.markers \subseteq {"<VPEOutputMap", "<VPEOutputContribution"}

\* C27: a dispatched document of the VPE-output family, a VPEOutputMap as
\* well as a VPEOutputContribution, that carries an acquired VPE section
\* with a program-bus block leaves the layer list of that block as the
\* active layers of the VPE.
C27_BothOutputFormsStoreLayers ==
    [][(ndocs' = ndocs + 1 /\ IsVpeOutputText(last_doc'))
          => LET doc == last_doc'
                 section == doc.sections[1]
             IN  (section.acquired = "True" /\ section.has_pgm)
                     => DictGet(on_air_layers'[VpeSuiteIndex(doc)], section.name, <<>>)
                            = ActiveLayers(section.pgm)]_vars

\* The contribution form is stored.
ContributionStoresLayers ==
    [][(ndocs' = ndocs + 1 /\ last_doc'.markers = {"<VPEOutputContribution"})
          => LET doc == last_doc'
                 section == doc.sections[1]
             IN  (section.acquired = "True" /\ section.has_pgm)
                     => DictGet(on_air_layers'[VpeSuiteIndex(doc)], section.name, <<>>)
                            = ActiveLayers(section.pgm)]_vars


\* ------------------------------------- input and output in either order
\* Input and output documents of one VPE, for the Suite attributes of
\* RefreshSuites.
OrderInputs(su) ==
    {VpeInputDoc(su, <<VpeInSection("ME1", a, sl)>>) :
        a \in {"True", "False"},
        sl \in {EmptyDict, [x \in {"BkgdA"} |-> "5"], [x \in {"key1-fill"} |-> "7"],
                [x \in {"key1-fill", "BkgdA"} |-> IF x = "BkgdA" THEN "5" ELSE "7"]}}

OrderOutputs(su) ==
    {VpeOutputDoc(su, <<VpeOutSection("ME1", a, pgm)>>) :
        a \in {"True", "False"},
        pgm \in {<<>>, <<"BkgdA">>, <<"key1-fill", "BkgdA">>, <<"key1-cut">>}}

\* The three maps the two handlers write.
VpeMaps(c) ==
    [current_on_air |-> c.current_on_air, layer_sources |-> c.layer_sources,
     on_air_layers |-> c.on_air_layers]

\* From the state c, the input document then the output document leave the
\* same three maps as the output document then the input document.
EitherOrder(c, input, output) ==
    VpeMaps(process_vpe_output_layers(process_vpe_input_simple(c, input), output))
        = VpeMaps(process_vpe_input_simple(process_vpe_output_layers(c, output), input))

\* C29: from every state of the session, for every input document and every
\* output document of one VPE of suite 1, the on-air text, the layer sources
\* and the active layers are the same whichever of the two is processed
\* first.
C29_InputOutputCommute ==
    \A input \in OrderInputs("1"), output \in OrderOutputs("1") :
        EitherOrder(Client, input, output)

\* The layer sources and the active layers do not depend on the order; the
\* on-air text does not either when source names are known and the output
\* document is of an acquired VPE with a layer the display shows: the
\* combiner then writes the text last in both orders.
InputOutputCommuteWhenShown ==
    \A input \in OrderInputs("1"), output \in OrderOutputs("1") :
        LET a == process_vpe_output_layers(process_vpe_input_simple(Client, input), output)
            b == process_vpe_input_simple(process_vpe_output_layers(Client, output), input)
            section == output.sections[1]
        IN  /\ a.layer_sources = b.layer_sources
            /\ a.on_air_layers = b.on_air_layers
            /\ (/\ source_names # EmptyDict
                /\ section.acquired = "True"
                /\ \E k \in DOMAIN section.pgm : LayerShown(section.pgm[k]))
                   => a.current_on_air = b.current_on_air


\* ------------------------------------------ the VPE output handler's frame
\* Output documents of the VPEs ME1 and PGM of suite 1: acquired or not, with
\* or without a program-bus block, with layers the display shows, hides or
\* with none, alone and two to a document; and the documents that give the
\* display something to show.
OutSections(name) ==
    {[name |-> name, acquired |-> a, has_pgm |-> h, pgm |-> pgm] :
        a \in {"True", "False"}, h \in BOOLEAN,
        pgm \in {<<>>, <<"BkgdA">>, <<"key1-fill", "BkgdA">>}}

OutputDocs ==
    {VpeOutputDoc("1", <<s1>>) : s1 \in OutSections("ME1")}
    \cup {VpeOutputDoc("1", <<s1, s2>>) :
             s1 \in {s \in OutSections("ME1") : s.pgm = <<"BkgdA">>},
             s2 \in {s \in OutSections("PGM") : s.pgm = <<"key1-fill", "BkgdA">>}}
    \cup {LogicalDoc("1", "full", <<LogCam1>>),
          VpeInputDoc("1", <<VpeInSection("ME1", "True", [x \in {"BkgdA"} |-> "5"])>>)}

NextOutput ==
    \/ Start({TRUE}, {NoFailure})
    \/ Dispatch(OutputDocs, {NoFailure})

SpecOutput == Init /\ [][NextOutput]_vars

\* What a dict holds for a key, if anything.
At(d, k) == IF k \in DOMAIN d THEN <<d[k]>> ELSE <<>>

\* C30: when a VPE output document is processed, a section that is not
\* marked Acquired="True" or has no program-bus block leaves the active
\* layers and the on-air text of its VPE as they were; an acquired section
\* with a block replaces the active layers by the block's layer list, in
\* order, and the on-air text is what the display combiner makes of them,
\* or is left when the combiner writes nothing. Nothing else in the store
\* changes.
C30_OutputHandlerActsOnAcquiredOnly ==
    [][(ndocs' = ndocs + 1 /\ FirstMarker(last_doc') = "<VPEOutputContribution")
          => LET doc == last_doc'
                 si == VpeSuiteIndex(doc)
             IN  /\ \A k \in DOMAIN doc.sections :
                        LET section == doc.sections[k]
                            vpe == section.name
                            layers == ActiveLayers(section.pgm)
                            lines == DisplayLines(source_names,
                                         DictGet(layer_sources[si], vpe, EmptyDict), layers)
                        IN  IF section.acquired = "True" /\ section.has_pgm
                            THEN /\ At(on_air_layers'[si], vpe) = <<layers>>
                                 /\ At(current_on_air'[si], vpe) =
                                        IF source_names # EmptyDict /\ lines # <<>>
                                        THEN <<lines>>
                                        ELSE At(current_on_air[si], vpe)
                            ELSE /\ At(on_air_layers'[si], vpe) = At(on_air_layers[si], vpe)
                                 /\ At(current_on_air'[si], vpe) = At(current_on_air[si], vpe)
                 /\ layer_sources' = layer_sources
                 /\ source_names' = source_names
                 /\ \A s \in SuiteKeys \ {si} :
                        /\ on_air_layers'[s] = on_air_layers[s]
                        /\ current_on_air'[s] = current_on_air[s]]_vars

\* C30 witness: after names, sources and active layers were learned for ME1,
\* a document with ME1 not acquired and PGM acquired was processed: ME1
\* keeps its layers and its text, PGM has the layers of its block and the
\* combined text.
C30_Witness ==
    /\ ndocs = 3
    /\ FirstMarker(last_doc) = "<VPEOutputContribution"
    /\ Len(last_doc.sections) = 2
    /\ last_doc.sections[1].acquired = "False"
    /\ last_doc.sections[2].acquired = "True" /\ last_doc.sections[2].has_pgm
    /\ source_names = [x \in {"5"} |-> "CAM1"]
    /\ on_air_layers[0] =
           [v \in {"ME1", "PGM"} |-> IF v = "ME1" THEN <<"key1-fill", "BkgdA">>
                                     ELSE <<"key1-fill", "BkgdA">>]
    /\ At(current_on_air[0], "ME1") # <<>>
    /\ At(current_on_air[0], "PGM") =
           << << << <<"KEY ", "1">>, ": No Source" >>,
                 <<"-------------">>,
                 << <<"BKGD A">>, ": No Source" >> >> >>

\* The store of the layers and the recomputation of the text are one step of
\* the receive worker, made while it holds the lock (client.py 339-342).
LayersStoredUnderLock ==
    [][on_air_layers' # on_air_layers => lock # "free" /\ lock' = "free"]_vars


\* ------------------------------------------- a display is never blanked
\* Output documents for ME1 of suite 1 whose program bus shows lines, or
\* holds nothing, cut layers only or layers the combiner does not know; the
\* input document and the logical maps that give ME1 a text and the index
\* its names, and the full map that empties the index again.
BlankLayerLists ==
    {<<>>, <<"key1-cut">>, <<"Foo">>, <<"Foo", "key1-cut">>, <<"BkgdA">>,
     <<"key1-fill", "BkgdA">>, <<"key1-cut", "BkgdB">>}

BlankDocs ==
    {VpeOutputDoc("1", <<VpeOutSection("ME1", "True", pgm)>>) : pgm \in BlankLayerLists}
    \cup {LogicalDoc("1", "full", <<LogCam1>>), LogicalDoc("1", "full", <<>>),
          LogicalDoc("1", "", <<LogCam2>>),
          VpeInputDoc("1", <<VpeInSection("ME1", "True", [x \in {"BkgdA"} |-> "5"])>>)}

NextBlank ==
    \/ Start({TRUE}, {NoFailure})
    \/ Dispatch(BlankDocs, {NoFailure})

SpecBlank == Init /\ [][NextBlank]_vars

\* A layer the display has a line for: a background or a key fill.
GivesLine(layer) ==
    \/ layer \in {"BkgdA", "BkgdB", "BkgdC", "BkgdD", "BkgdU1", "BkgdU2"}
    \/ layer \in {"key1-fill", "key2-fill", "key3-fill", "key4-fill", "key5-fill", "key6-fill"}

\* The combiner has run for suite index s and VPE v between this state and
\* the next: the entry is as it was when the index of names is empty or no
\* active layer gives a line, and is the combined text, which has a line,
\* otherwise.
CombinerKeepsOrReplaces(s, v) ==
    LET active == DictGet(on_air_layers'[s], v, <<>>)
        lines == DisplayLines(source_names', DictGet(layer_sources'[s], v, EmptyDict), active)
    IN  IF source_names' = EmptyDict \/ ~\E i \in DOMAIN active : GivesLine(active[i])
        THEN At(current_on_air'[s], v) = At(current_on_air[s], v)
        ELSE At(current_on_air'[s], v) = <<lines>> /\ lines # <<>>

\* C31: the display combiner never blanks a display. When it runs for a VPE
\* (for the VPE of an output document, or for every VPE with active layers
\* after a logical source map) and the source-name index is empty or the
\* active layers give no line (none, cut layers only, unknown layers only),
\* the on-air entry keeps its previous value; otherwise the entry becomes the
\* combined text. An entry that held a text never becomes empty.
C31_CombinerNeverBlanks ==
    [][(ndocs' = ndocs + 1)
          => /\ FirstMarker(last_doc') = "<VPEOutputContribution"
                    => CombinerKeepsOrReplaces(VpeSuiteIndex(last_doc'),
                                               last_doc'.sections[1].name)
             /\ FirstMarker(last_doc') = "<LogicalSourceMap"
                    => \A s \in 0..(NumSuites - 1) : \A v \in DOMAIN on_air_layers[s] :
                           on_air_layers[s][v] # <<>> => CombinerKeepsOrReplaces(s, v)
             /\ \A s \in SuiteKeys : \A v \in DOMAIN current_on_air[s] :
                    current_on_air[s][v] # <<>>
                        => v \in DOMAIN current_on_air'[s] /\ current_on_air'[s][v] # <<>>]_vars

\* C31 witness: ME1 showed the text of its background, then an output
\* document left it cut layers only: with the names known the text is still
\* there.
C31_Witness ==
    /\ FirstMarker(last_doc) = "<VPEOutputContribution"
    /\ source_names # EmptyDict
    /\ on_air_layers[0] = [v \in {"ME1"} |-> <<"key1-cut">>]
    /\ At(current_on_air[0], "ME1") = << << << <<"BKGD A">>, ": No Source" >> >> >>


\* ------------------------------------------------ the framer's buffer bound
\* The places where the envelope terminator starts in a text.
ClosersIn(text) == {i \in 1..(Len(text) - 5) : SubSeq(text, i, i + 5) = ETP_CLOSE}

RECURSIVE Flatten(_)
Flatten(chunks) == IF chunks = <<>> THEN <<>> ELSE Head(chunks) \o Flatten(Tail(chunks))

\* C32: after each socket read has been processed the buffer holds at most
\* MaxBuffer characters (the 1,000,000 of the code, scaled) and no complete
\* envelope; every envelope the read completed was dispatched, whole and in
\* order, also when the remainder behind it was over the limit and was
\* discarded; the remainder is kept when it is within the limit.
C32_BufferIsBounded ==
    /\ [](Len(buffer) <= MaxBuffer /\ ClosersIn(buffer) = {})
    /\ [][rd_pos' # rd_pos
            => LET text == buffer \o Decode(SubSeq(stream, rd_pos + 1, rd_pos'))
                   new == SubSeq(dispatched', Len(dispatched) + 1, Len(dispatched'))
                   cut == Len(Flatten(new))
                   rest == SubSeq(text, cut + 1, Len(text))
               IN  /\ SubSeq(dispatched', 1, Len(dispatched)) = dispatched
                   /\ Len(new) = Cardinality(ClosersIn(text))
                   /\ \A i \in DOMAIN new :
                          ClosersIn(new[i]) = {Len(new[i]) - 5}
                   /\ Flatten(new) = SubSeq(text, 1, cut)
                   /\ buffer' = IF Len(rest) > MaxBuffer THEN <<>> ELSE rest]_vars

\* C32 witness: one envelope was dispatched, and the eight characters read
\* behind it, one short of a second envelope, were discarded.
C32_Witness ==
    /\ stream = <<"a">> \o ETP_CLOSE \o <<"a", "b", "c">> \o ETP_CLOSE
    /\ rd_pos = Len(stream) - 1
    /\ dispatched = << <<"a">> \o ETP_CLOSE >>
    /\ overflowed
    /\ buffer = <<>>


\* ----------------------------------------------- documents that fail, in a stream
\* Whether the handler of a document raises or rejects it: a VPE document
\* whose Suite attribute is no number (client.py 171, 310), a structured
\* document ElementTree rejects or that lacks its element (client.py 249-256,
\* 417-424, 479-486).
Rejects(doc) ==
    LET m == FirstMarker(doc)
    IN  \/ /\ m \in {"<VPEInputContribution", "<VPEInputMap", "<VPEOutputContribution"}
           /\ VpeSuiteRaises(doc)
        \/ /\ m \in StructuredMarkers
           /\ ~(doc.wellformed /\ doc.has_elem)

\* Mutant: an exception of a handler leaves process_xml_chunk and ends the
\* loop at the worker's `except Exception: break`.
receive_worker_turn_fatal(io, doc) ==
    [process_xml_chunk(io, doc) EXCEPT !.ok = ~Rejects(doc)]

\* One chunk in the loop of receive_worker (client.py 551-555, 559-563):
\* process_xml_chunk returns whatever its handler did (client.py 160-161 and
\* the handlers' own except clauses), so the loop goes on (ok).
receive_worker_turn(io, doc) ==
    [process_xml_chunk(io, doc) EXCEPT !.ok = TRUE]

\* The receive worker cuts the next complete document from its buffer and
\* processes it (client.py 551-555).
ReceiveDoc ==
    /\ threads.recv = "alive"
    /\ running
    /\ sock = "open"
    /\ inbox # <<>>
    /\ ndocs < MaxDocs
    /\ LET doc == Head(inbox)
           r == receive_worker_turn(IO(Client, now, NoFailure), doc)
           m == FirstMarker(doc)
       IN  /\ SetClient(r.c)
           /\ last_doc' = doc
           /\ prev_full' = DocIsFull(last_doc)
           /\ markers_done' = markers_done + (IF m = "<SetComplete/>" THEN 1 ELSE 0)
           /\ writes' = r.out
           /\ bursts' = bursts + r.bursts
           /\ auth_seen' = (auth_seen \/ m = "<Authentication>")
           /\ names_seen' = (names_seen \/ r.c.source_names # EmptyDict)
           /\ unanswered_since' =
                  IF m = "<Heartbeat>" THEN Never
                  ELSE StillUnanswered(unanswered_since, r.out, now)
           /\ silent_wakes' = IF m = "<Heartbeat>" THEN 0 ELSE silent_wakes
           /\ updates' = r.updates
           /\ threads' = [threads EXCEPT !.recv = IF r.ok THEN "alive" ELSE "exited"]
    /\ inbox' = Tail(inbox)
    /\ ndocs' = ndocs + 1
    /\ UNCHANGED <<timeouts, start_ok, stops, envVars, stream, rd_pos, buffer,
                   dispatched, overflowed, lockVars, reg_pc, cbVars>>

\* Documents that fail in every way the handlers know, and good ones.
RecoverDocs ==
    {MalformedDoc(m) : m \in StructuredMarkers}
    \cup {[TallyDoc("full", <<TallyFirst>>) EXCEPT !.has_elem = FALSE],
          TallyDoc("full", <<[Name |-> "Aux 1", Suite |-> "x", OutNum |-> "x", LogSrc |-> "7"]>>),
          VpeInputDoc("x", <<VpeInSection("ME1", "True", [x \in {"BkgdA"} |-> "5"])>>),
          VpeOutputDoc("x", <<VpeOutSection("ME1", "True", <<"BkgdA">>)>>),
          LogicalDoc("1", "full", <<LogCam1>>),
          VpeOutputDoc("1", <<VpeOutSection("ME1", "True", <<"BkgdA">>)>>)}

\* A client not started yet, and the documents its socket will deliver.
InitRecover ==
    /\ InitClient /\ InitEnv /\ InitHist /\ InitLock
    /\ stream = <<>>
    /\ rd_pos = 0
    /\ buffer = <<>>
    /\ dispatched = <<>>
    /\ overflowed = FALSE
    /\ inbox \in UNION {[1..n -> RecoverDocs] : n \in 1..MaxDocs}

NextRecover ==
    \/ Start({TRUE}, {NoFailure})
    \/ ReceiveDoc

SpecRecover == InitRecover /\ [][NextRecover]_vars

\* C33: a parse error is never fatal. A document whose handler raises or
\* rejects it is taken from the stream once, and after it the session still
\* runs and the receive worker is alive; each document the worker processes
\* is the next one of the stream; and while the stream holds a document in a
\* started session the worker is in its loop, able to take it, whatever
\* failed before.
C33_ParseErrorIsNeverFatal ==
    /\ [][(ndocs' = ndocs + 1)
            => /\ last_doc' = Head(inbox)
               /\ inbox' = Tail(inbox)
               /\ Rejects(last_doc')
                     => /\ threads'.recv = "alive"
                        /\ running' /\ connected' /\ sock' = "open"]_vars
    /\ []((inbox # <<>> /\ start_ok = "true")
             => threads.recv = "alive" /\ running /\ sock = "open")

\* C33 witness: a malformed tally and a VPE document with a Suite that is no
\* number were processed, then the logical map behind them stored its name;
\* the worker is alive.
C33_Witness ==
    /\ ndocs = 3
    /\ inbox = <<>>
    /\ last_doc = LogicalDoc("1", "full", <<LogCam1>>)
    /\ source_names = [x \in {"5"} |-> "CAM1"]
    /\ prev_full = FALSE
    /\ threads.recv = "alive"
    /\ running


\* --------------------------------- the registration burst, request by request
\* start() and the authentication branch of process_xml_chunk both call
\* _send_initial_requests (client.py 593, 159), on two threads and without
\* the lock; request_data sleeps 50 ms after each request (client.py 111).
\* Here the two calls are taken apart into the test of the flag, each send,
\* the assignment of the flag and the heartbeat. The network refuses no
\* write, so request_data does not fail and start() does not retry.
RegThreads == {"caller", "worker"}

\* The write attempts of one operation, marked with the thread that made them.
Tagged(out, th) ==
    [k \in DOMAIN out |-> [msg |-> out[k].msg, ok |-> out[k].ok, by |-> th]]

\* start() up to its call of _send_initial_requests (client.py 583-593): the
\* connect, the running flag, the two threads, the authentication request.
StartBegin ==
    /\ sock = "none"
    /\ LET io1 == [IO(Client, now, NoFailure) EXCEPT
                       !.c.sock = "open", !.c.connected = TRUE, !.c.running = TRUE]
           a == authenticate(io1)
       IN  /\ SetClient(a.c)
           /\ writes' = writes \o Tagged(a.out, "caller")
           /\ reg_pc' = [reg_pc EXCEPT !.caller = IF a.ok THEN [pc |-> "check", i |-> 0]
                                                  ELSE NotIn]
           /\ start_ok' = IF a.ok THEN start_ok ELSE "false"
    /\ threads' = [recv |-> "alive", hb |-> "alive"]
    /\ hb_wake' = now + heartbeat_interval
    /\ UNCHANGED <<now, docHist, bursts, auth_seen, beatHist, stops, names_seen, updates,
                   framerVars, lockVars, cbVars>>

\* The receive worker processes the authentication response up to its call
\* of _send_initial_requests (client.py 155-159).
WorkerAuth ==
    /\ threads.recv = "alive"
    /\ running
    /\ sock = "open"
    /\ ~auth_seen
    /\ reg_pc.worker = NotIn
    /\ \E k \in DOMAIN writes : writes[k].msg = "Authentication-Request" /\ writes[k].ok
    /\ SetClient([Client EXCEPT !.response_timer = 0])
    /\ auth_seen' = TRUE
    /\ last_doc' = MarkerDoc("<Authentication>")
    /\ prev_full' = DocIsFull(last_doc)
    /\ ndocs' = ndocs + 1
    /\ updates' = 0
    /\ reg_pc' = [reg_pc EXCEPT !.worker = [pc |-> "check", i |-> 0]]
    /\ UNCHANGED <<markers_done, writes, bursts, start_ok, beatHist, stops, names_seen,
                   threads, envVars, framerVars, lockVars, cbVars>>

\* `if self._initial_requests_sent: return True` (client.py 60-61), and the
\* entry into request_data.
RegCheck(th) ==
    /\ reg_pc[th].pc = "check"
    /\ reg_pc' = [reg_pc EXCEPT ![th] = IF initial_requests_sent
                                        THEN [pc |-> "done", i |-> 0]
                                        ELSE [pc |-> "send", i |-> 1]]
    /\ bursts' = bursts + (IF initial_requests_sent THEN 0 ELSE 1)
    /\ start_ok' = IF th = "caller" /\ initial_requests_sent THEN "true" ELSE start_ok
    /\ UNCHANGED <<clientVars, envVars, docHist, writes, auth_seen, beatHist, stops,
                   names_seen, updates, threads, framerVars, lockVars, cbVars>>

\* One request of the loop of request_data (client.py 108-111).
RegSend(th) ==
    /\ reg_pc[th].pc = "send"
    /\ LET i == reg_pc[th].i
           r == send_message(IO(Client, now, NoFailure), Requests[i])
       IN  /\ SetClient(r.c)
           /\ writes' = writes \o Tagged(r.out, th)
           /\ reg_pc' = [reg_pc EXCEPT ![th] =
                            IF ~r.ok THEN [pc |-> "failed", i |-> i]
                            ELSE IF i = Len(Requests) THEN [pc |-> "flag", i |-> 0]
                            ELSE [pc |-> "send", i |-> i + 1]]
    /\ UNCHANGED <<envVars, docHist, bursts, auth_seen, start_ok, beatHist, stops,
                   names_seen, updates, threads, framerVars, lockVars, cbVars>>

\* `self._initial_requests_sent = True` (client.py 63-64).
RegFlag(th) ==
    /\ reg_pc[th].pc = "flag"
    /\ SetClient([Client EXCEPT !.initial_requests_sent = TRUE])
    /\ reg_pc' = [reg_pc EXCEPT ![th] = [pc |-> "beat", i |-> 0]]
    /\ UNCHANGED <<envVars, docHist, wireHist, beatHist, stops, names_seen, updates,
                   threads, framerVars, lockVars, cbVars>>

\* `self.send_heartbeat()` and the return (client.py 65-66).
RegBeat(th) ==
    /\ reg_pc[th].pc = "beat"
    /\ LET r == send_heartbeat(IO(Client, now, NoFailure))
       IN  /\ SetClient(r.c)
           /\ writes' = writes \o Tagged(r.out, th)
           /\ unanswered_since' = StillUnanswered(unanswered_since, r.out, now)
    /\ reg_pc' = [reg_pc EXCEPT ![th] = [pc |-> "done", i |-> 0]]
    /\ start_ok' = IF th = "caller" THEN "true" ELSE start_ok
    /\ UNCHANGED <<envVars, docHist, bursts, auth_seen, timeouts, silent_wakes, stops,
                   names_seen, updates, threads, framerVars, lockVars, cbVars>>

NextRace ==
    \/ StartBegin
    \/ WorkerAuth
    \/ \E th \in RegThreads : RegCheck(th)
    \/ \E th \in RegThreads : RegSend(th)
    \/ \E th \in RegThreads : RegFlag(th)
    \/ \E th \in RegThreads : RegBeat(th)

SpecRace == Init /\ [][NextRace]_vars

\* The registration requests written so far, in the order of the socket.
RegWrites == SelectSeq(writes, IsRegistration)

\* C34: within one session the registration burst is sent to completion at
\* most once, whichever of start() and the authentication branch sends it,
\* and the requests of the two threads do not interleave on the socket.
C34_BurstSentAtMostOnce ==
    /\ Cardinality({k \in DOMAIN writes :
                       writes[k].msg = Requests[Len(Requests)] /\ writes[k].ok}) <= 1
    /\ \A i, j, k \in DOMAIN RegWrites :
           (i < j /\ j < k /\ RegWrites[i].by = RegWrites[k].by)
               => RegWrites[j].by = RegWrites[i].by

\* What holds of the two calls: each thread sends at most one burst, its
\* own requests in the fixed order, and the flag is set only after a whole
\* burst of the thread that sets it.
EachThreadSendsInOrder ==
    /\ bursts <= 2
    /\ \A th \in RegThreads :
           LET own == SelectSeq(RegWrites, LAMBDA w : w.by = th)
           IN  /\ Len(own) <= Len(Requests)
               /\ \A k \in DOMAIN own : own[k].msg = Requests[k]
    /\ initial_requests_sent => Len(RegWrites) >= Len(Requests)

\* The response that arrives after start() has set the flag starts no
\* second burst.
LateResponseSendsNothing ==
    [][(reg_pc.worker.pc = "check" /\ reg_pc'.worker.pc # "check"
        /\ reg_pc.caller.pc \in {"beat", "done"})
           => reg_pc'.worker.pc = "done" /\ writes' = writes]_vars


\* ------------------------------------------------------ the update callbacks
\* A callback is known by what it does when it is invoked: it takes a
\* snapshot of the store under the lock, registers another callback,
\* unregisters itself, raises, or does nothing of the kind ("late", the
\* callback the registering one registers).  NotCallable is a value that is
\* not callable.
Callables == {"snapshots", "registers", "unregisters", "raises", "late"}

NotCallable == "<not callable>"

\* Mutant: the registration does not look for the callback in the list.
register_update_callback_again(cbs, callback) ==
    IF callback \notin Callables THEN cbs
    ELSE Append(cbs, callback)

\* register_update_callback (client.py 513-519), on the list.
register_update_callback(cbs, callback) ==
    IF callback \notin Callables THEN cbs
    ELSE IF callback \in Range(cbs) THEN cbs
    ELSE Append(cbs, callback)

\* unregister_update_callback (client.py 521-525), on the list.
unregister_update_callback(cbs, callback) ==
    IF callback \in Range(cbs) THEN RemoveAt(cbs, IndexOf(cbs, callback)) ELSE cbs

\* Whether the body of a callback enters `with client.lock`.
NeedsLock(cb) == cb \in {"snapshots", "registers", "unregisters"}

\* What the body of a callback does to the list.
CallbackEffect(cb, cbs) ==
    CASE cb = "registers"   -> register_update_callback(cbs, "late")
      [] cb = "unregisters" -> unregister_update_callback(cbs, "unregisters")
      [] OTHER              -> cbs

\* Another thread registers a callback; the lock is taken only for a
\* callable (client.py 515-519).
Register(cbs) ==
    /\ \E cb \in cbs :
           /\ (cb \in Callables) => lock = "free"
           /\ update_callbacks' = register_update_callback(update_callbacks, cb)
    /\ UNCHANGED <<clientVars, envVars, docHist, wireHist, beatHist, stops, names_seen,
                   updates, threads, reg_pc, notify, framerVars, lockVars>>

\* Another thread unregisters a callback (client.py 521-525).
Unregister(cbs) ==
    /\ lock = "free"
    /\ \E cb \in cbs :
           update_callbacks' = unregister_update_callback(update_callbacks, cb)
    /\ UNCHANGED <<clientVars, envVars, docHist, wireHist, beatHist, stops, names_seen,
                   updates, threads, reg_pc, notify, framerVars, lockVars>>

\* The number the document in the worker's hands will have.
ThisDoc == ndocs + 1

\* Whether the notification of the document in the worker's hands is under
\* way, and the callbacks it has still to invoke.
Notifying == recv_pc = "done" /\ notify.doc_no = ThisDoc

Pending == SubSeq(notify.list, Len(notify.called) + 1, Len(notify.list))

\* Mutant: the notifier keeps the lock while it calls out.
NotifyCopyHolding ==
    /\ recv_pc = "done"
    /\ Triggers(FirstMarker(recv_doc), recv_doc)
    /\ notify.doc_no # ThisDoc
    /\ lock = "free"
    /\ lock' = "recv"
    /\ notify' = [doc_no |-> ThisDoc, list |-> update_callbacks, called |-> <<>>]
    /\ UNCHANGED <<clientVars, envVars, docHist, wireHist, beatHist, stops, names_seen,
                   updates, threads, reg_pc, update_callbacks, framerVars,
                   recv_pc, recv_doc, recv_sections, recv_targets, doc_pre, reader_pc,
                   snapshot>>

\* The handler has left its last critical section and calls
\* trigger_gui_update; _notify_update_callbacks copies the list in a
\* critical section of its own (client.py 528-529).
NotifyCopy ==
    /\ recv_pc = "done"
    /\ Triggers(FirstMarker(recv_doc), recv_doc)
    /\ notify.doc_no # ThisDoc
    /\ lock = "free"
    /\ notify' = [doc_no |-> ThisDoc, list |-> update_callbacks, called |-> <<>>]
    /\ UNCHANGED <<clientVars, envVars, docHist, wireHist, beatHist, stops, names_seen,
                   updates, threads, reg_pc, update_callbacks, framerVars, lockVars>>

\* The next callback of the copy is called, on the worker's thread (client.py
\* 530-534); a body that enters the lock waits until it is free, an exception
\* is caught.
CallbackRuns ==
    /\ Notifying
    /\ Pending # <<>>
    /\ LET cb == Head(Pending)
       IN  /\ NeedsLock(cb) => lock = "free"
           /\ update_callbacks' = CallbackEffect(cb, update_callbacks)
           /\ notify' = [notify EXCEPT !.called = Append(@, cb)]
    /\ UNCHANGED <<clientVars, envVars, docHist, wireHist, beatHist, stops, names_seen,
                   updates, threads, reg_pc, framerVars, lockVars>>

\* The notifier and the handler return.
RecvEndNotified ==
    /\ Triggers(FirstMarker(recv_doc), recv_doc) => (Notifying /\ Pending = <<>>)
    /\ RecvEnd

\* Documents whose handlers notify (VPE input and output, the latter with a
\* section the loop passes over) and that do not (a logical map, a VPE
\* document that raises).
NotifyDocs ==
    {VpeOutputDoc("1", <<VpeOutSection("ME2", "False", <<>>),
                         VpeOutSection("ME1", "True", <<"BkgdA">>)>>),
     VpeInputDoc("1", <<VpeInSection("ME1", "True", [x \in {"BkgdA"} |-> "5"])>>),
     VpeInputDoc("x", <<VpeInSection("ME1", "False", EmptyDict)>>),
     LogicalDoc("1", "", <<LogCam1>>)}

\* The lists of callbacks that were registered before start().
NotifyLists ==
    {<<>>, <<"snapshots">>, <<"registers", "snapshots">>,
     <<"unregisters", "raises", "snapshots">>, <<"raises", "registers", "unregisters">>}

InitNotify ==
    /\ InitClient /\ InitEnv /\ InitNotes /\ InitFramer /\ InitLock
    /\ update_callbacks \in NotifyLists

NextNotify ==
    \/ Start({TRUE}, {NoFailure})
    \/ RecvBegin(NotifyDocs)
    \/ RecvSections
    \/ RecvSkip
    \/ RecvAcquire
    \/ RecvSlots
    \/ RecvOnAir
    \/ RecvActiveLayers
    \/ RecvLogical
    \/ RecvRefresh
    \/ RecvRefreshEnd
    \/ NotifyCopy
    \/ CallbackRuns
    \/ RecvEndNotified
    \/ ReaderAcquire
    \/ ReaderCopyOnAir
    \/ ReaderCopyRest
    \/ ReaderReturn

SpecNotify == InitNotify /\ [][NextNotify]_vars


C36_FailedStartLeavesNoSession ==
    [][(start_ok = "none" /\ start_ok' = "false" /\ sock' = "open")
          => /\ ~running'
             /\ ~connected'
             /\ threads'.recv # "alive"
             /\ threads'.hb # "alive"]_vars

\* What start() leaves behind in that case: the flags connect() and start()
\* raised and both workers it started.
FailedStartKeepsSession ==
    [][(start_ok = "none" /\ start_ok' = "false" /\ sock' = "open")
          => /\ running'
             /\ connected'
             /\ threads' = [recv |-> "alive", hb |-> "alive"]
             /\ \E k \in DOMAIN writes' : ~writes'[k].ok]_vars


\* -------------------------------------- the name index against the catalogs
\* The ids of the LogicalSourceCatalog of any suite.
CatalogIds == UNION {OdKeys(logical_sources[s]) : s \in SuiteKeys}

\* C37: every id in the source-name index is the id of an entry in the
\* LogicalSourceCatalog of at least one suite.
C37_NamesHaveCatalogEntries == DOMAIN source_names \subseteq CatalogIds

\* C37 witness: the index held a name, and a full map without entries has
\* emptied the only catalog that had one: the index is empty again.
C37_Witness ==
    /\ ndocs = 2
    /\ names_seen
    /\ last_doc = LogicalDoc("1", "full", <<>>)
    /\ CatalogIds = {}
    /\ source_names = EmptyDict

\* C38: every entry of any suite's LogicalSourceCatalog that has a non-empty
\* name is resolvable, the source-name index maps its id to a name; a full
\* map for one suite that drops an id does not remove the cached name of the
\* same id still present in another suite's catalog.
C38_NamedEntriesResolvable ==
    \A s \in SuiteKeys : \A k \in DOMAIN logical_sources[s] :
        logical_sources[s][k][2].name # "" => logical_sources[s][k][1] \in DOMAIN source_names

\* What the purge keeps to: after a full map for a suite, the named entries
\* of that suite are resolvable, with the names the document gave.
FullMapResolvesItsSuite ==
    [][(ndocs' = ndocs + 1 /\ IsLogicalDoc(last_doc') /\ MapIsFull(last_doc'.type))
          => LET S == LogicalSuiteIndex(last_doc')
             IN  \A k \in DOMAIN logical_sources'[S] :
                     LET e == logical_sources'[S][k]
                     IN  e[2].name # "" => /\ e[1] \in DOMAIN source_names'
                                           /\ source_names'[e[1]] = e[2].name]_vars


\* ------------------------------------------------- slots the device empties
\* C39: after a VPE-input document has been processed, every key-fill or
\* background slot that appears in one of its VPE sections has in
\* LayerSourceMap[suite][vpe] the content the document gives for it, also
\* when that content is empty (a slot without an entry counts as empty): an
\* emptied slot does not keep its previous source id.
C39_InputSlotsFollowDocument ==
    [][(ndocs' = ndocs + 1 /\ IsVpeInputDoc(last_doc') /\ ~VpeSuiteRaises(last_doc'))
          => LET doc == last_doc'
                 si == VpeSuiteIndex(doc)
             IN  \A k \in DOMAIN doc.sections :
                     LET section == doc.sections[k]
                         stored == DictGet(layer_sources'[si], section.name, EmptyDict)
                     IN  section.name # ""
                            => \A slot \in DOMAIN section.slots :
                                   DictGet(stored, slot, "") = Strip(section.slots[slot])]_vars

\* What the handler keeps to: a slot the document gives content for has that
\* content, and a slot the document leaves empty is as it was.
InputSlotsStoredWhenFilled ==
    [][(ndocs' = ndocs + 1 /\ IsVpeInputDoc(last_doc') /\ ~VpeSuiteRaises(last_doc'))
          => LET doc == last_doc'
                 si == VpeSuiteIndex(doc)
             IN  \A k \in DOMAIN doc.sections :
                     LET section == doc.sections[k]
                         before == DictGet(layer_sources[si], section.name, EmptyDict)
                         stored == DictGet(layer_sources'[si], section.name, EmptyDict)
                     IN  section.name # ""
                            => \A slot \in DOMAIN section.slots :
                                   IF section.slots[slot] # ""
                                   THEN At(stored, slot) = <<Strip(section.slots[slot])>>
                                   ELSE At(stored, slot) = At(before, slot)]_vars


\* ------------------------------------------------ the registry of callbacks
\* The values other threads register and unregister while the worker
\* receives: three callables and a value that is not callable.  "late" is
\* registered only by the callback that registers.
RegistryCallbacks == {"raises", "registers", "unregisters", NotCallable}

\* A VPE output document, whose handler notifies, and a VPE document that
\* raises in the handler, which does not.
RegistryDocs ==
    {VpeOutputDoc("1", <<VpeOutSection("ME1", "True", <<"BkgdA">>)>>),
     VpeInputDoc("x", <<VpeInSection("ME1", "False", EmptyDict)>>)}

InitRegistry ==
    /\ InitClient /\ InitEnv /\ InitHist /\ InitFramer /\ InitLock

NextRegistry ==
    \/ Start({TRUE}, {NoFailure})
    \/ Register(RegistryCallbacks)
    \/ Unregister(RegistryCallbacks)
    \/ RecvBegin(RegistryDocs)
    \/ RecvSections
    \/ RecvAcquire
    \/ RecvActiveLayers
    \/ NotifyCopy
    \/ CallbackRuns
    \/ RecvEndNotified

SpecRegistry == InitRegistry /\ [][NextRegistry]_vars

\* A list that holds no value twice, and a list without the value x.
NoDuplicates(s) == \A i, j \in DOMAIN s : s[i] = s[j] => i = j

Without(s, x) == SelectSeq(s, LAMBDA y : y # x)

\* What registering and unregistering cb give on the list as it stands.
RegistryIsOrderedSet(cbs) ==
    \A cb \in Callables \cup {NotCallable} :
        LET registered   == register_update_callback(cbs, cb)
            unregistered == unregister_update_callback(cbs, cb)
        IN  /\ cb = NotCallable => registered = cbs
            /\ cb \in Range(cbs) => registered = cbs
            /\ (cb \in Callables /\ cb \notin Range(cbs)) => registered = Append(cbs, cb)
            /\ unregistered = Without(cbs, cb)
            /\ cb \notin Range(cbs) => unregistered = cbs

\* C40: the callback registry behaves as an ordered set and a notification
\* calls what it held when the notification started. The list never holds a
\* callback twice nor a non-callable; registering a registered callback or a
\* non-callable leaves it as it is, registering a new callable appends it,
\* unregistering removes the callback and keeps the order of the others (and
\* changes nothing if it is absent). A notification copies the list as it is
\* when it starts and calls the copy in order, one callback at a time; when
\* the handler returns every callback of the copy has been called exactly
\* once, a raising one included, and the receive worker is still running.
C40_RegistryIsOrderedSet ==
    /\ [](/\ NoDuplicates(update_callbacks)
          /\ Range(update_callbacks) \subseteq Callables
          /\ RegistryIsOrderedSet(update_callbacks))
    /\ [][update_callbacks' # update_callbacks
             => \E cb \in Callables :
                    \/ cb \notin Range(update_callbacks)
                         /\ update_callbacks' = Append(update_callbacks, cb)
                    \/ cb \in Range(update_callbacks)
                         /\ update_callbacks' = Without(update_callbacks, cb)]_vars
    /\ [][notify'.doc_no # notify.doc_no
             => /\ notify'.list = update_callbacks
                /\ notify'.called = <<>>]_vars
    /\ [][(notify'.doc_no = notify.doc_no /\ notify' # notify)
             => /\ notify'.list = notify.list
                /\ Len(notify.called) < Len(notify.list)
                /\ notify'.called = Append(notify.called,
                                           notify.list[Len(notify.called) + 1])]_vars
    /\ [][(ndocs' = ndocs + 1 /\ Triggers(FirstMarker(last_doc'), last_doc'))
             => /\ notify.doc_no = ndocs'
                /\ notify.called = notify.list
                /\ NoDuplicates(notify.called)
                /\ running'
                /\ threads'.recv = "alive"]_vars

\* C40 witness: a notification that started with three callbacks has called
\* them in the order of their registration, the raising one second; the
\* first unregistered itself and the third registered a new one, which this
\* notification does not call; the handler has returned.
C40_Witness ==
    /\ notify.doc_no = ndocs
    /\ recv_pc = "idle"
    /\ notify.list = <<"unregisters", "raises", "registers">>
    /\ notify.called = notify.list
    /\ update_callbacks = <<"raises", "registers", "late">>
    /\ threads.recv = "alive"

====
